---- MODULE Spec2Model ----
(***************************************************************************)
(* Model of the surgical manifest patch engine of the DepFixer CLI:        *)
(* PackageJsonService (src/src/services/package-json.ts) and VersionUtils  *)
(* (src/unnamed/part_000).                                                 *)
(*                                                                         *)
(* A text is a sequence of characters; a character is a one-character      *)
(* string.  The regular expressions of the source are modelled by          *)
(* matchers over such sequences, the file system by the content of         *)
(* package.json and package.json.bak.                                      *)
(***************************************************************************)
EXTENDS Integers, Sequences, FiniteSets, TLC

VARIABLES
    pkgFile,        \* content of <dir>/package.json
    pkgStatus,      \* "ok" | "ENOENT" | "EACCES": what readFile will meet
    bakFile,        \* content of <dir>/package.json.bak
    bakExists,      \* whether package.json.bak exists
    pc,             \* position of the running command
    content,        \* applySurgicalFixes: let content
    applied,        \* applySurgicalFixes: let applied
    removed,        \* applySurgicalFixes: let removed
    enginesUpdated, \* applySurgicalFixes: let enginesUpdated
    nChanges,       \* entries of `changes` consumed by the first loop
    nRemovals,      \* entries of `removals` consumed by the second loop
    orig,           \* history: text of package.json when the invocation began
    log,            \* history: file operations of the invocation, in order
    op,             \* history: the last patch operation, its input and result
    solution,       \* the proposed solution handed to getChanges
    changes,        \* the Change list computed by getChanges
    cli             \* the command around the patch engine: a record of its locals

\* The variables of the patch engine and of its files.
engineVars == <<pkgFile, pkgStatus, bakFile, bakExists, pc, content, applied, removed,
                enginesUpdated, nChanges, nRemovals, orig, log, op, solution, changes>>

\* The same, the position of the command left out.
engineVarsButPc == <<pkgFile, pkgStatus, bakFile, bakExists, content, applied, removed,
                     enginesUpdated, nChanges, nRemovals, orig, log, op, solution, changes>>

vars == <<engineVars, cli>>

---------------------------------------------------------------------------
(* Characters and string literals of the source.                           *)

Q == "\""
NL == "\n"
SP == " "

Min(S) == CHOOSE x \in S : \A y \in S : x <= y

\* \s of the regular expressions, restricted to the characters of the model.
IsSpace(c) == c \in {SP, NL}

DEPENDENCIES == <<"d","e","p","e","n","d","e","n","c","i","e","s">>
DEVDEPENDENCIES == <<"d","e","v","D","e","p","e","n","d","e","n","c","i","e","s">>
ENGINES == <<"e","n","g","i","n","e","s">>
VERSION == <<"v","e","r","s","i","o","n">>
NAME == <<"n","a","m","e">>
NODE == <<"n","o","d","e">>
NPM == <<"n","p","m">>

Quoted(s) == <<Q>> \o s \o <<Q>>

\* String.prototype.includes
Includes(s, sub) ==
    \E i \in 1..(Len(s) - Len(sub) + 1) : SubSeq(s, i, i + Len(sub) - 1) = sub

\* String.prototype.startsWith
StartsWith(s, pre) == Len(s) >= Len(pre) /\ SubSeq(s, 1, Len(pre)) = pre

\* String.prototype.substring(from) with a 1-based index
From(s, i) == SubSeq(s, i, Len(s))

\* String.prototype.trimEnd().endsWith(',')
RECURSIVE TrimEndLen(_)
TrimEndLen(s) ==
    IF Len(s) > 0 /\ IsSpace(s[Len(s)]) THEN TrimEndLen(SubSeq(s, 1, Len(s) - 1))
    ELSE Len(s)

TrimEndEndsWithComma(s) == TrimEndLen(s) > 0 /\ s[TrimEndLen(s)] = ","

\* String.prototype.split('\n'): line k runs from the character after the
\* (k-1)-th newline to the character before the k-th.
SplitLines(s) ==
    LET nl == {i \in 1..Len(s) : s[i] = NL}
        starts == {1} \cup {i + 1 : i \in nl}
        start(k) == CHOOSE a \in starts : Cardinality({b \in starts : b < a}) = k - 1
        end(a) == Min({i \in nl : i >= a} \cup {Len(s) + 1}) - 1
    IN  [k \in 1..Cardinality(starts) |-> SubSeq(s, start(k), end(start(k)))]

\* Array.prototype.join('\n')
RECURSIVE JoinLines(_)
JoinLines(lines) ==
    IF Len(lines) = 0 THEN <<>>
    ELSE IF Len(lines) = 1 THEN lines[1]
    ELSE lines[1] \o <<NL>> \o JoinLines(Tail(lines))

\* (line.match(/c/g) || []).length
RECURSIVE CountChar(_, _)
CountChar(s, c) ==
    IF Len(s) = 0 THEN 0
    ELSE (IF s[1] = c THEN 1 ELSE 0) + CountChar(Tail(s), c)

---------------------------------------------------------------------------
(* Regular-expression matching.  A pattern built from a string is a        *)
(* sequence of atoms: a literal character, or `.` (any character but a     *)
(* newline).  An index of 0 means "no match".                              *)

LitAtom(c) == [any |-> FALSE, ch |-> c]
AnyAtom == [any |-> TRUE, ch |-> "."]

\* A string spliced into a RegExp source without escaping: `.` is a wildcard.
RawPattern(str) ==
    [i \in 1..Len(str) |-> IF str[i] = "." THEN AnyAtom ELSE LitAtom(str[i])]

\* The atoms match s at index i: the index after the match, else 0.
MatchAt(s, i, atoms) ==
    IF i < 1 \/ i + Len(atoms) - 1 > Len(s) THEN 0
    ELSE IF \A k \in 1..Len(atoms) :
                IF atoms[k].any THEN s[i + k - 1] # NL ELSE s[i + k - 1] = atoms[k].ch
         THEN i + Len(atoms)
         ELSE 0

\* \s* from index i: the index of the first character that is not white space.
RECURSIVE SkipSpace(_, _)
SkipSpace(s, i) ==
    IF i <= Len(s) /\ IsSpace(s[i]) THEN SkipSpace(s, i + 1) ELSE i

CharAt(s, i, c) == i >= 1 /\ i <= Len(s) /\ s[i] = c

\* The literal character c at index i: the index after it, else 0.
Expect(s, i, c) == IF CharAt(s, i, c) THEN i + 1 ELSE 0

\* \s* after a match that ended before index i (0: there was no match).
Spaces(s, i) == IF i = 0 THEN 0 ELSE SkipSpace(s, i)

\* The first index of a set of match positions, 0 if it is empty.
FirstOf(hits) == IF hits = {} THEN 0 ELSE Min(hits)

\* "<key>"\s*:\s* at index i: the index after the match, else 0.
KeyColonAt(s, i, atoms) ==
    Spaces(s, Expect(s, Spaces(s, Expect(s, MatchAt(s, Expect(s, i, Q), atoms), Q)), ":"))

\* "[^"]*" at index i: the index after the closing quote, else 0.
RECURSIVE UntilQuote(_, _)
UntilQuote(s, i) ==
    IF i > Len(s) THEN 0
    ELSE IF s[i] = Q THEN i + 1
    ELSE UntilQuote(s, i + 1)

StringAt(s, i) == IF CharAt(s, i, Q) THEN UntilQuote(s, i + 1) ELSE 0

\* "<key>"\s*:\s*\{ at index i: the index after the brace, else 0.
HeaderAt(s, i, key) == Expect(s, KeyColonAt(s, i, RawPattern(key)), "{")

\* RegExp.exec: index of the first match of the header, else 0.
HeaderIndex(s, key) ==
    FirstOf({i \in 1..Len(s) : s[i] = Q /\ HeaderAt(s, i, key) # 0})

\* "<key>"\s*:\s*"[^"]*" at index i: the index after the match, else 0.
StringFieldAt(s, i, key) == StringAt(s, KeyColonAt(s, i, RawPattern(key)))

StringFieldIndex(s, key) ==
    FirstOf({i \in 1..Len(s) : s[i] = Q /\ StringFieldAt(s, i, key) # 0})

\* braceCount after the loop has read s[start..i].
BraceCount(s, start, i) ==
    Cardinality({j \in start..i : s[j] = "{"}) - Cardinality({j \in start..i : s[j] = "}"})

\* A scan that stops at the first closing brace, whatever the depth.
ClosingBrace_firstBrace(s, start) ==
    FirstOf({i \in start..Len(s) : s[i] = "}" /\ \E j \in start..i : s[j] = "{"})

\* The brace-depth loop from index start: the first closing brace that brings
\* braceCount back to 0 once an opening brace was seen (inSection), else 0.
ClosingBrace(s, start) ==
    FirstOf({i \in start..Len(s) :
                /\ s[i] = "}"
                /\ \E j \in start..i : s[j] = "{"
                /\ BraceCount(s, start, i) = 0})

\* A section taken to run to the end of the text.
BlockEnd_toEndOfText(s, start) == Len(s)

\* The last index of content.substring(sectionStart, sectionEnd): sectionEnd
\* stays at sectionStart, and the block is empty, when no brace closes.
BlockEnd(s, start) ==
    IF ClosingBrace(s, start) = 0 THEN start - 1 ELSE ClosingBrace(s, start)

---------------------------------------------------------------------------
(* Operation 1: replaceVersionInSection.                                   *)

\* The section name of a change or removal (type === 'devDependency' ? ...).
SectionOf(type) == IF type = "devDependency" THEN DEVDEPENDENCIES ELSE DEPENDENCIES

\* A package name or version spliced into a pattern with its metacharacters
\* left unescaped.
EscapeRegExp_unescaped(str) ==
    [i \in 1..Len(str) |-> IF str[i] = "." THEN AnyAtom ELSE LitAtom(str[i])]

\* str.replace(/[.*+?^${}()|[\]\\]/g, '\\$&') spliced into a RegExp source:
\* every character of str stands for itself.
EscapeRegExp(str) == [i \in 1..Len(str) |-> LitAtom(str[i])]

\* ("<pkg>"\s*:\s*")<from>(") at index i of s: [vstart, vend], the indices of
\* the first character of the version and of its closing quote; else vstart = 0.
\* Group 1, ("<pkg>"\s*:\s*"), at index i: the index after it, else 0.
PatternGroup1(s, i, pkgAtoms) == Expect(s, KeyColonAt(s, i, pkgAtoms), Q)

\* Group 1 and the version <from> at index i: the index after them, that of
\* group 2, the closing quote; else 0.
PatternVersion(s, i, pkgAtoms, fromAtoms) ==
    MatchAt(s, PatternGroup1(s, i, pkgAtoms), fromAtoms)

\* The whole pattern at index i: the index after the match, else 0.
PackagePatternAt(s, i, pkgAtoms, fromAtoms) ==
    Expect(s, PatternVersion(s, i, pkgAtoms, fromAtoms), Q)

\* packagePattern.exec(sectionContent): the index of the first match, else 0.
PackagePatternExec(s, pkgAtoms, fromAtoms) ==
    FirstOf({i \in 1..Len(s) :
                s[i] = Q /\ PackagePatternAt(s, i, pkgAtoms, fromAtoms) # 0})

\* sectionContent.replace(packagePattern, `$1${toVersion}$2`) for the match at
\* index m: the version, between groups 1 and 2, is replaced.
ReplaceMatch(sectionContent, m, pkgAtoms, fromAtoms, toVersion) ==
    SubSeq(sectionContent, 1, PatternGroup1(sectionContent, m, pkgAtoms) - 1)
        \o toVersion
        \o From(sectionContent, PatternVersion(sectionContent, m, pkgAtoms, fromAtoms))

\* The section content is sectionContent, found at sectionStart..sectionEnd of c.
ReplaceInContent(c, sectionStart, sectionEnd, sectionContent, m, pkgAtoms, fromAtoms, toVersion) ==
    IF m = 0 THEN [content |-> c, replaced |-> FALSE]
    ELSE [content |-> SubSeq(c, 1, sectionStart - 1)
                          \o ReplaceMatch(sectionContent, m, pkgAtoms, fromAtoms, toVersion)
                          \o From(c, sectionEnd + 1),
          replaced |-> TRUE]

\* The section found at sectionStart..sectionEnd of c.
ReplaceInBlock(c, sectionStart, sectionEnd, pkgAtoms, fromAtoms, toVersion) ==
    ReplaceInContent(c, sectionStart, sectionEnd, SubSeq(c, sectionStart, sectionEnd),
                     PackagePatternExec(SubSeq(c, sectionStart, sectionEnd),
                                        pkgAtoms, fromAtoms),
                     pkgAtoms, fromAtoms, toVersion)

\* The header found at sectionStart of c, or not at all (0).
ReplaceInSection(c, sectionStart, pkgAtoms, fromAtoms, toVersion) ==
    IF sectionStart = 0 THEN [content |-> c, replaced |-> FALSE]
    ELSE ReplaceInBlock(c, sectionStart, BlockEnd(c, sectionStart),
                        pkgAtoms, fromAtoms, toVersion)

replaceVersionInSection(c, section, packageName, fromVersion, toVersion) ==
    ReplaceInSection(c, HeaderIndex(c, section), EscapeRegExp(packageName),
                     EscapeRegExp(fromVersion), toVersion)

---------------------------------------------------------------------------
(* Operation 2: removePackageFromSection.                                  *)

\* An optional character c at index i: the index after it, or i.
Optional(s, i, c) == IF CharAt(s, i, c) THEN i + 1 ELSE i

\* ^\s*"<pkg>"\s*:\s*"[^"]*"\s*,?\s*$ tested on one line.
PackageLineTest(line, pkgAtoms) ==
    Spaces(line,
           Optional(line,
                    Spaces(line, StringAt(line, KeyColonAt(line, SkipSpace(line, 1),
                                                          pkgAtoms))),
                    ",")) = Len(line) + 1

\* The loop over the lines: the (1-based) index of the package line, else 0.
RECURSIVE FindPackageLine(_, _, _, _, _, _)
RECURSIVE ScanInSection(_, _, _, _, _)

\* The body of `if (inSection)` for line i, braceCount already updated.
ScanInSection(lines, i, braceCount, section, pkgAtoms) ==
    IF PackageLineTest(lines[i], pkgAtoms) THEN i
    ELSE IF braceCount = 0 /\ i > 1 THEN 0
    ELSE FindPackageLine(lines, i + 1, TRUE, braceCount, section, pkgAtoms)

FindPackageLine(lines, i, inSection, braceCount, section, pkgAtoms) ==
    IF i > Len(lines) THEN 0
    ELSE IF inSection \/ Includes(lines[i], Quoted(section))
    THEN ScanInSection(lines, i,
                       braceCount + CountChar(lines[i], "{") - CountChar(lines[i], "}"),
                       section, pkgAtoms)
    ELSE FindPackageLine(lines, i + 1, FALSE, braceCount, section, pkgAtoms)

\* lines.splice(index, 1)
Splice(lines, index) == SubSeq(lines, 1, index - 1) \o SubSeq(lines, index + 1, Len(lines))

\* prevLine.replace(/,(\s*)$/, '$1')
StripTrailingComma(line) ==
    SubSeq(line, 1, TrimEndLen(line) - 1) \o From(line, TrimEndLen(line) + 1)

\* A removal that leaves the line above as it is.
RepairComma_never(spliced, packageLineIndex, hasTrailingComma) == spliced

\* The comma repair on the lines left once the package line is removed.
RepairComma(spliced, packageLineIndex, hasTrailingComma) ==
    IF ~hasTrailingComma /\ packageLineIndex > 1
       /\ TrimEndEndsWithComma(spliced[packageLineIndex - 1])
    THEN [spliced EXCEPT ![packageLineIndex - 1] = StripTrailingComma(@)]
    ELSE spliced

\* `if (packageLineIndex === -1) return ...`, else the removal of the line.
RemoveLine(c, lines, packageLineIndex) ==
    IF packageLineIndex = 0 THEN [content |-> c, removed |-> FALSE]
    ELSE [content |-> JoinLines(RepairComma(Splice(lines, packageLineIndex),
                                            packageLineIndex,
                                            TrimEndEndsWithComma(lines[packageLineIndex]))),
          removed |-> TRUE]

RemoveFromLines(c, lines, section, pkgAtoms) ==
    RemoveLine(c, lines, FindPackageLine(lines, 1, FALSE, 0, section, pkgAtoms))

removePackageFromSection(c, section, packageName) ==
    RemoveFromLines(c, SplitLines(c), section, EscapeRegExp(packageName))

---------------------------------------------------------------------------
(* Operation 3: updateEngines.  `engines` is Object.entries(engines): a     *)
(* sequence of [key, value] records; an empty value is falsy.              *)

INDENT == <<SP, SP, SP, SP>>

\* `    "<key>": "<value>"`
EngineEntry(key, value) == INDENT \o Quoted(key) \o <<":", SP>> \o Quoted(value)

\* "[^"]+" ended before index j, begun at index i: j, or 0 if it is empty.
NonEmptyString(i, j) == IF j > i + 2 THEN j ELSE 0

\* /"[^"]+"\s*:\s*"[^"]*"/.test(beforeBrace)
EntryAt(s, i) ==
    StringAt(s, Spaces(s, Expect(s, Spaces(s, NonEmptyString(i, StringAt(s, i))), ":")))

HasEntries(s) == \E i \in 1..Len(s) : s[i] = Q /\ EntryAt(s, i) # 0

\* String.prototype.lastIndexOf('}') as a 1-based index, else 0.
LastIndexOfBrace(s) ==
    IF \A i \in 1..Len(s) : s[i] # "}" THEN 0
    ELSE CHOOSE i \in 1..Len(s) : s[i] = "}" /\ \A j \in (i + 1)..Len(s) : s[j] # "}"

\* A replacement that writes the value and closes the block after it.
SetEngineValue_toEndOfBlock(ec, vs, value) ==
    SubSeq(ec, 1, vs - 1) \o Quoted(value) \o <<NL, SP, SP, "}">>

\* enginesContent.replace(keyPattern, `"${key}": "${value}"`) for the match whose
\* value string begins at index vs.
SetEngineValue(ec, vs, value) ==
    SubSeq(ec, 1, vs - 1) \o Quoted(value) \o From(ec, StringAt(ec, vs))

\* The new entry put between beforeBrace and afterBrace.
InsertBeforeBrace(beforeBrace, afterBrace, key, value) ==
    IF HasEntries(beforeBrace)
    THEN SubSeq(beforeBrace, 1, TrimEndLen(beforeBrace))
             \o <<",", NL>> \o EngineEntry(key, value)
             \o From(beforeBrace, TrimEndLen(beforeBrace) + 1) \o afterBrace
    ELSE beforeBrace \o <<NL>> \o EngineEntry(key, value) \o <<NL, SP, SP>> \o afterBrace

\* substring(0, closingBraceIndex) and substring(closingBraceIndex); an index
\* of -1 (here 0) gives '' and the whole string.
InsertEngineKey(ec, closingBraceIndex, key, value) ==
    InsertBeforeBrace(SubSeq(ec, 1, closingBraceIndex - 1),
                      IF closingBraceIndex = 0 THEN ec ELSE From(ec, closingBraceIndex),
                      key, value)

\* A loop that inserts every key of the update, present in the block or not.
UpdateOrInsertKey_alwaysInsert(ec, at, key, value) ==
    InsertEngineKey(ec, LastIndexOfBrace(ec), key, value)

\* `if (keyPattern.test(enginesContent))`, the key matched at index at.
UpdateOrInsertKey(ec, at, key, value) ==
    IF at # 0 THEN SetEngineValue(ec, KeyColonAt(ec, at, RawPattern(key)), value)
    ELSE InsertEngineKey(ec, LastIndexOfBrace(ec), key, value)

\* One iteration of the loop over the entries of an existing block.
UpdateEngineKey(ec, key, value) ==
    UpdateOrInsertKey(ec, StringFieldIndex(ec, key), key, value)

RECURSIVE UpdateEngineKeys(_, _, _)
UpdateEngineKeys(ec, engines, updated) ==
    IF Len(engines) = 0 THEN [content |-> ec, updated |-> updated]
    ELSE IF Len(engines[1].value) = 0 THEN UpdateEngineKeys(ec, Tail(engines), updated)
    ELSE UpdateEngineKeys(UpdateEngineKey(ec, engines[1].key, engines[1].value),
                          Tail(engines), updated + 1)

\* The entries of enginesObj: the keys with a non-empty value.
NonEmptyEngines(engines) == SelectSeq(engines, LAMBDA e : Len(e.value) > 0)

RECURSIVE JoinEntries(_)
JoinEntries(engines) ==
    IF Len(engines) = 0 THEN <<>>
    ELSE IF Len(engines) = 1 THEN EngineEntry(engines[1].key, engines[1].value)
    ELSE EngineEntry(engines[1].key, engines[1].value) \o <<",", NL>>
             \o JoinEntries(Tail(engines))

\* `"engines": {\n${enginesEntries}\n  }`
EnginesStr(engines) ==
    Quoted(ENGINES) \o <<":", SP, "{", NL>> \o JoinEntries(engines) \o <<NL, SP, SP, "}">>

\* The block inserted at insertPoint, after the comma found at index comma
\* if there is one.
InsertWithComma(c, insertPoint, comma, engines) ==
    IF CharAt(c, comma, ",")
    THEN SubSeq(c, 1, comma) \o <<NL, SP, SP>> \o EnginesStr(engines) \o <<",">>
             \o From(c, comma + 1)
    ELSE SubSeq(c, 1, insertPoint - 1) \o <<",", NL, SP, SP>>
             \o EnginesStr(engines) \o From(c, insertPoint)

\* insertPoint = insertMatch.index + insertMatch[0].length
InsertAt(c, insertPoint, engines) ==
    InsertWithComma(c, insertPoint, SkipSpace(c, insertPoint), engines)

\* An insertion point that prefers the "name" field.
InsertAfterField_nameFirst(c, vAt, nAt, engines) ==
    IF nAt # 0 THEN InsertAt(c, StringFieldAt(c, nAt, NAME), engines)
    ELSE IF vAt # 0 THEN InsertAt(c, StringFieldAt(c, vAt, VERSION), engines)
    ELSE c

\* versionPattern.exec(content) matched at vAt, else namePattern at nAt.
InsertAfterField(c, vAt, nAt, engines) ==
    IF vAt # 0 THEN InsertAt(c, StringFieldAt(c, vAt, VERSION), engines)
    ELSE IF nAt # 0 THEN InsertAt(c, StringFieldAt(c, nAt, NAME), engines)
    ELSE c

\* The new block inserted after the "version" field, else after "name".
InsertEngines(c, engines) ==
    InsertAfterField(c, StringFieldIndex(c, VERSION), StringFieldIndex(c, NAME), engines)

\* The block at enginesStart..enginesEnd replaced by the updated one.
ReplaceEngines(c, enginesStart, enginesEnd, r) ==
    [content |-> SubSeq(c, 1, enginesStart - 1) \o r.content \o From(c, enginesEnd + 1),
     updated |-> r.updated]

UpdateEnginesBlock(c, enginesStart, enginesEnd, engines) ==
    ReplaceEngines(c, enginesStart, enginesEnd,
                   UpdateEngineKeys(SubSeq(c, enginesStart, enginesEnd), engines, 0))

\* No engines block: `if (Object.keys(enginesObj).length > 0)`.
AddEngines(c, enginesObj) ==
    [content |-> IF Len(enginesObj) > 0 THEN InsertEngines(c, enginesObj) ELSE c,
     updated |-> Len(enginesObj)]

\* `if (enginesMatch)`, the header matched at index enginesStart.
UpdateOrAddEngines(c, enginesStart, engines) ==
    IF enginesStart # 0
    THEN UpdateEnginesBlock(c, enginesStart, BlockEnd(c, enginesStart), engines)
    ELSE AddEngines(c, NonEmptyEngines(engines))

updateEngines(c, engines) == UpdateOrAddEngines(c, HeaderIndex(c, ENGINES), engines)

---------------------------------------------------------------------------
(* JSON.parse, for documents made of objects and strings.  A value is      *)
(* [t |-> "str", s |-> characters] or [t |-> "obj", m |-> members], a       *)
(* member [k |-> key, v |-> value].  A SyntaxError is ok = FALSE.           *)

ParseError == [ok |-> FALSE, next |-> 0, val |-> [t |-> "none"]]

RECURSIVE ParseValue(_, _)
RECURSIVE ParseMembers(_, _, _)
RECURSIVE MemberValue(_, _, _, _)
RECURSIVE AfterMember(_, _, _, _, _)
RECURSIVE NextMember(_, _, _)

\* The string begun at index i and ended before index e (0: not ended).
StringValue(s, i, e) ==
    IF e = 0 THEN ParseError
    ELSE [ok |-> TRUE, next |-> e, val |-> [t |-> "str", s |-> SubSeq(s, i + 1, e - 2)]]

\* The object whose first token after the brace is at index j.
ObjectValue(s, j) ==
    IF CharAt(s, j, "}")
    THEN [ok |-> TRUE, next |-> j + 1, val |-> [t |-> "obj", m |-> <<>>]]
    ELSE ParseMembers(s, j, <<>>)

ParseValue(s, i) ==
    IF CharAt(s, i, Q) THEN StringValue(s, i, StringAt(s, i))
    ELSE IF CharAt(s, i, "{") THEN ObjectValue(s, SkipSpace(s, i + 1))
    ELSE ParseError

\* After a member: a comma and the next member, or the closing brace.
NextMember(s, after, acc) ==
    IF CharAt(s, after, ",") THEN ParseMembers(s, SkipSpace(s, after + 1), acc)
    ELSE IF CharAt(s, after, "}")
    THEN [ok |-> TRUE, next |-> after + 1, val |-> [t |-> "obj", m |-> acc]]
    ELSE ParseError

\* The member whose key is at i..kEnd-1 and whose value parsed as v.
AfterMember(s, i, kEnd, v, acc) ==
    IF ~v.ok THEN ParseError
    ELSE NextMember(s, SkipSpace(s, v.next),
                    Append(acc, [k |-> SubSeq(s, i + 1, kEnd - 2), v |-> v.val]))

\* The value of the member whose key string ended before index kEnd, and
\* whose colon is expected at index colon.
MemberValue(s, i, kEnd, acc) ==
    AfterMember(s, i, kEnd,
                IF CharAt(s, Spaces(s, kEnd), ":")
                THEN ParseValue(s, SkipSpace(s, Spaces(s, kEnd) + 1))
                ELSE ParseError,
                acc)

ParseMembers(s, i, acc) == MemberValue(s, i, StringAt(s, i), acc)

\* The whole text is one value, white space around it.
WholeText(s, r) == IF r.ok /\ SkipSpace(s, r.next) = Len(s) + 1 THEN r ELSE ParseError

JSONParse(s) == WholeText(s, ParseValue(s, SkipSpace(s, 1)))

\* obj[key] of a parsed object: the last member of that name counts.
HasKey(obj, key) == obj.t = "obj" /\ \E i \in 1..Len(obj.m) : obj.m[i].k = key

Get(obj, key) ==
    obj.m[CHOOSE i \in 1..Len(obj.m) :
              obj.m[i].k = key /\ \A j \in (i + 1)..Len(obj.m) : obj.m[j].k # key].v

Undefined == [t |-> "none"]

\* obj[key], undefined when obj is not an object or has no such member.
Member(obj, key) == IF HasKey(obj, key) THEN Get(obj, key) ELSE Undefined

\* A value as a string: "" (falsy) when it is not one.
StringOf(v) == IF v.t = "str" THEN v.s ELSE <<>>

\* original.dependencies[pkg] as a string: "" (falsy) when it is undefined.
Declared(parsed, section, pkg) == StringOf(Member(Member(parsed, section), pkg))

---------------------------------------------------------------------------
(* VersionUtils.                                                           *)

UPPER == <<"A","B","C","D","E","F","G","H","I","J","K","L","M",
           "N","O","P","Q","R","S","T","U","V","W","X","Y","Z">>
LOWER == <<"a","b","c","d","e","f","g","h","i","j","k","l","m",
           "n","o","p","q","r","s","t","u","v","w","x","y","z">>
DIGITS == {"0","1","2","3","4","5","6","7","8","9"}

\* String.prototype.toLowerCase
ToLowerCase(s) ==
    [i \in 1..Len(s) |->
        IF \E k \in 1..Len(UPPER) : UPPER[k] = s[i]
        THEN LOWER[CHOOSE k \in 1..Len(UPPER) : UPPER[k] = s[i]]
        ELSE s[i]]

UNKNOWN == <<"u","n","k","n","o","w","n">>
NOT_AVAILABLE == <<"n","o","t"," ","a","v","a","i","l","a","b","l","e">>
PENDING == <<"p","e","n","d","i","n","g">>
MANUALREVIEWREQUIRED ==
    <<"m","a","n","u","a","l","r","e","v","i","e","w","r","e","q","u","i","r","e","d">>
LATEST == <<"l","a","t","e","s","t">>
REMOVE_LOWER == <<"r","e","m","o","v","e">>
REMOVE_OR_REPLACE ==
    <<"r","e","m","o","v","e"," ","o","r"," ","r","e","p","l","a","c","e">>
REMOVE_UPPER == <<"R","E","M","O","V","E">>

\* /^[\^~>=<]?\d|^\d|\*|latest/.test(lower)
ValidVersionPattern(lower) ==
    \/ Len(lower) >= 2 /\ lower[1] \in {"^", "~", ">", "=", "<"} /\ lower[2] \in DIGITS
    \/ Len(lower) >= 1 /\ lower[1] \in DIGITS
    \/ Includes(lower, <<"*">>)
    \/ Includes(lower, LATEST)

\* The tests of isUnknownVersion on the lower-cased version.
IsUnknownLower(lower) ==
    IF lower = UNKNOWN \/ Includes(lower, UNKNOWN) THEN TRUE
    ELSE IF Includes(lower, NOT_AVAILABLE) THEN TRUE
    ELSE IF lower = PENDING THEN TRUE
    ELSE IF lower = MANUALREVIEWREQUIRED THEN TRUE
    ELSE ~ValidVersionPattern(lower)

\* version: a sequence of characters; the empty sequence is falsy, as undefined.
isUnknownVersion(version) ==
    IF Len(version) = 0 THEN TRUE ELSE IsUnknownLower(ToLowerCase(version))

\* The tests of isRemoveVersion on the version and its lower-cased form.
IsRemoveLower(version, lower) ==
    lower = REMOVE_LOWER \/ lower = REMOVE_OR_REPLACE \/ version = REMOVE_UPPER

isRemoveVersion(version) ==
    IF Len(version) = 0 THEN FALSE ELSE IsRemoveLower(version, ToLowerCase(version))

\* A format that adds the caret whatever the version starts with.
formatVersion_alwaysCaret(version) == <<"^">> \o version

formatVersion(version) ==
    IF Len(version) = 0 THEN version
    ELSE IF \/ StartsWith(version, <<"^">>) \/ StartsWith(version, <<"~">>)
            \/ StartsWith(version, <<">", "=">>) \/ StartsWith(version, <<">">>)
            \/ StartsWith(version, <<"<", "=">>) \/ StartsWith(version, <<"<">>)
            \/ Includes(version, <<SP>>) \/ Includes(version, <<"|", "|">>)
         THEN version
         ELSE <<"^">> \o version

---------------------------------------------------------------------------
(* getChanges.  A solution section is Object.entries of the mapping: a     *)
(* sequence of [package, version] records.                                 *)

\* `if (original.dependencies[pkg] && original.dependencies[pkg] !== versionStr)`
\* with declared = original.dependencies[pkg]: the change pushed, if any.
ChangeFor(pkg, declared, versionStr, type) ==
    IF Len(declared) > 0 /\ declared # versionStr
    THEN <<[package |-> pkg, from |-> declared, to |-> formatVersion(versionStr),
            type |-> type]>>
    ELSE <<>>

\* One iteration of the loop over Object.entries of a solution section.
EntryChanges(original, section, pkg, versionStr, type) ==
    IF isUnknownVersion(versionStr) \/ isRemoveVersion(versionStr) THEN <<>>
    ELSE ChangeFor(pkg, Declared(original, section, pkg), versionStr, type)

RECURSIVE SectionChanges(_, _, _, _)
SectionChanges(original, section, entries, type) ==
    IF Len(entries) = 0 THEN <<>>
    ELSE EntryChanges(original, section, entries[1].package, entries[1].version, type)
             \o SectionChanges(original, section, Tail(entries), type)

getChanges(original, sol) ==
    (IF HasKey(original, DEPENDENCIES)
     THEN SectionChanges(original, DEPENDENCIES, sol.dependencies, "dependency")
     ELSE <<>>)
    \o
    (IF HasKey(original, DEVDEPENDENCIES)
     THEN SectionChanges(original, DEVDEPENDENCIES, sol.devDependencies, "devDependency")
     ELSE <<>>)

---------------------------------------------------------------------------
(* The manifests the program is run on: documents with one declaration per *)
(* line, as package managers write them, in three styles:                  *)
(*   "std"   two-space indentation, nothing else;                          *)
(*   "blank" an empty line before the last entry of a section;             *)
(*   "hug"   the first member on the line of the document's opening brace. *)

MaxEntries == 2
MaxChanges == 1
MaxRemovals == 1

PKG_AB == <<"a", ".", "b">>
PKG_AXB == <<"a", "x", "b">>
PKG_B == <<"b">>
Packages == {PKG_AB, PKG_AXB, PKG_B}
DevLists == { <<PKG_B>>, <<PKG_AXB, PKG_B>> }

V10 == <<"1", ".", "0">>
V11 == <<"1", ".", "1">>
VC10 == <<"^", "1", ".", "0">>
VC11 == <<"^", "1", ".", "1">>
GE11 == <<">", "=", "1", ".", "1">>
NODE18 == <<">", "=", "1", "8">>
NPM9 == <<">", "=", "9">>

\* The packages of a section in the order they are declared; a section
\* declares any MaxEntries of them or fewer.
PackageOrder == <<PKG_AXB, PKG_AB, PKG_B>>

Pick(list, I) ==
    LET F[k \in 0..Len(list)] ==
            IF k = 0 THEN <<>>
            ELSE IF k \in I THEN Append(F[k - 1], list[k]) ELSE F[k - 1]
    IN  F[Len(list)]

DepLists ==
    { Pick(PackageOrder, I) :
        I \in {J \in SUBSET (1..Len(PackageOrder)) : Cardinality(J) <= MaxEntries} }

Comma(line, yes) == IF yes THEN line \o <<",">> ELSE line

\* The lines of a dependency section: every declared version is "1.0".
EntryLines(pkgs, style) ==
    LET n == Len(pkgs)
        line(i) == Comma(INDENT \o Quoted(pkgs[i]) \o <<":", SP>> \o Quoted(V10), i < n)
    IN  IF n >= 2 /\ style = "blank"
        THEN [i \in 1..(n - 1) |-> line(i)] \o << <<>>, line(n) >>
        ELSE [i \in 1..n |-> line(i)]

BlockLines(key, entryLines) ==
    IF Len(entryLines) = 0
    THEN << <<SP, SP>> \o Quoted(key) \o <<":", SP, "{", "}">> >>
    ELSE << <<SP, SP>> \o Quoted(key) \o <<":", SP, "{">> >> \o entryLines
             \o << <<SP, SP, "}">> >>

EngineLines(eng) ==
    [i \in 1..Len(eng) |-> Comma(EngineEntry(eng[i].key, eng[i].value), i < Len(eng))]

MemberLines(kind, m) ==
    CASE kind = "name" -> << <<SP, SP>> \o Quoted(NAME) \o <<":", SP>> \o Quoted(<<"x">>) >>
      [] kind = "version" -> << <<SP, SP>> \o Quoted(VERSION) \o <<":", SP>> \o Quoted(V10) >>
      [] kind = "dependencies" -> BlockLines(DEPENDENCIES, EntryLines(m.deps, m.style))
      [] kind = "devDependencies" -> BlockLines(DEVDEPENDENCIES, EntryLines(m.dev, m.style))
      [] kind = "engines" -> BlockLines(ENGINES, EngineLines(m.eng))

RECURSIVE MembersLines(_, _)
MembersLines(kinds, m) ==
    IF Len(kinds) = 0 THEN <<>>
    ELSE LET b == MemberLines(kinds[1], m)
         IN  [b EXCEPT ![Len(b)] = Comma(@, Len(kinds) > 1)] \o MembersLines(Tail(kinds), m)

Render(m) ==
    LET body == MembersLines(m.members, m)
    IN  IF m.style = "hug"
        THEN JoinLines(<< <<"{">> \o Tail(body[1]) >> \o Tail(body) \o << <<"}">> >>)
        ELSE JoinLines(<< <<"{">> >> \o body \o << <<"}">> >>)

Layouts ==
    { [members |-> <<"name", "version", "dependencies", "devDependencies">>, style |-> "std"],
      [members |-> <<"name", "version", "dependencies", "devDependencies">>, style |-> "blank"],
      [members |-> <<"version", "devDependencies", "dependencies">>, style |-> "std"],
      [members |-> <<"dependencies", "devDependencies">>, style |-> "hug"],
      [members |-> <<"name", "dependencies", "engines">>, style |-> "std"],
      [members |-> <<"dependencies", "version">>, style |-> "std"],
      [members |-> <<"name", "devDependencies">>, style |-> "std"] }

\* The engines blocks of the manifests that have one: empty, one key, two keys
\* of which "node" holds an older constraint.
EngineBlocks ==
    { <<>>,
      <<[key |-> NODE, value |-> NODE18]>>,
      <<[key |-> NPM, value |-> NPM9], [key |-> NODE, value |-> NPM9]>> }

Manifests ==
    { [members |-> l.members, style |-> l.style, deps |-> d, dev |-> v, eng |-> e] :
        l \in Layouts, d \in DepLists, v \in DevLists,
        e \in EngineBlocks }

Texts == { Render(m) : m \in Manifests }

---------------------------------------------------------------------------
(* The inputs of applySurgicalFixes.                                       *)

Types == {"dependency", "devDependency"}

ChangeInputs ==
    { [package |-> p, from |-> f, to |-> IF f = V10 THEN VC10 ELSE VC11, type |-> t] :
        p \in Packages, f \in {V10, VC10}, t \in Types }

RemovalInputs == [package : Packages, type : Types]

\* Object.entries(engines); <<>> stands for undefined and for {}.
EngineInputs ==
    { <<>>,
      <<[key |-> NODE, value |-> NODE18]>>,
      <<[key |-> NODE, value |-> NODE18], [key |-> NPM, value |-> NPM9]>>,
      <<[key |-> NODE, value |-> <<>>], [key |-> NPM, value |-> NPM9]>> }

NoOp == [kind |-> "none", type |-> "", package |-> <<>>, from |-> <<>>, to |-> <<>>,
         engines |-> <<>>, before |-> <<>>, flag |-> FALSE, count |-> 0]

\* No command is modelled around the patch engine.
NoCli == [command |-> "none"]

NoSolution == [dependencies |-> <<>>, devDependencies |-> <<>>, removals |-> <<>>,
               engines |-> <<>>]

---------------------------------------------------------------------------
(* applySurgicalFixes, one action per step between two awaits or two loop  *)
(* iterations.                                                             *)

\* A read that yields a text whatever the state of the file.
Readable_always(status) == TRUE

\* fs.readFile succeeds on a file that exists and may be read.
Readable(status) == status = "ok"

\* A backup written from the parsed document, which loses the formatting.
BackupData_reserialized(c) == SelectSeq(c, LAMBDA ch : ~IsSpace(ch))

\* A backup that is written once and kept by later invocations.
BackupData_keepFirst(c) ==
    IF cli.command = "again" /\ cli.runs > 1 THEN cli.previous ELSE c

\* The data of the backup write: the content just read.
BackupData(c) == c

\* A version of the function that goes on without writing the backup.
AfterRead_noBackup == "changes"

\* "Create backup first": the step that follows the read.
AfterRead == "backup"

\* A counter incremented for every entry, found or not.
CountIf_always(flag, n) == n + 1

\* if (result.replaced) applied++  /  if (result.removed) removed++
CountIf(flag, n) == IF flag THEN n + 1 ELSE n

\* A loop that drops the result of every step.
ContentIf_never(flag, new, old) == old

\* if (result.replaced) content = result.content
ContentIf(flag, new, old) == IF flag THEN new ELSE old

\* await fs.readFile(filePath, 'utf-8')
ReadFile ==
    /\ pc = "start"
    /\ IF Readable(pkgStatus)
       THEN /\ content' = pkgFile
            /\ log' = Append(log, "read")
            /\ pc' = AfterRead
       ELSE /\ pc' = "failed"
            /\ UNCHANGED <<content, log>>
    /\ UNCHANGED <<cli, pkgFile, pkgStatus, bakFile, bakExists, applied, removed, enginesUpdated,
                   nChanges, nRemovals, orig, op, solution, changes>>

\* fs.writeFile(backupPath, content) opens the file with flag 'w': it is created
\* or truncated, and holds the data only when the promise resolves.
BackupOpen ==
    /\ pc = "backup"
    /\ bakExists' = TRUE
    /\ bakFile' = <<>>
    /\ log' = Append(log, "bak_open")
    /\ pc' = "backup_writing"
    /\ UNCHANGED <<cli, pkgFile, pkgStatus, content, applied, removed, enginesUpdated,
                   nChanges, nRemovals, orig, op, solution, changes>>

BackupDone ==
    /\ pc = "backup_writing"
    /\ bakFile' = BackupData(content)
    /\ log' = Append(log, "bak_done")
    /\ pc' = "changes"
    /\ UNCHANGED <<cli, pkgFile, pkgStatus, bakExists, content, applied, removed,
                   enginesUpdated, nChanges, nRemovals, orig, op, solution, changes>>

\* One iteration of `for (const change of changes)`.
ChangeResult(ch, result) ==
    /\ content' = ContentIf(result.replaced, result.content, content)
    /\ applied' = CountIf(result.replaced, applied)
    /\ nChanges' = nChanges + 1
    /\ op' = [NoOp EXCEPT !.kind = "change", !.type = ch.type, !.package = ch.package,
                          !.from = ch.from, !.to = ch.to, !.before = content,
                          !.flag = result.replaced, !.count = applied]
    /\ UNCHANGED <<cli, pkgFile, pkgStatus, bakFile, bakExists, pc, removed, enginesUpdated,
                   nRemovals, orig, log, solution, changes>>

ChangeStep(ch) ==
    ChangeResult(ch, replaceVersionInSection(content, SectionOf(ch.type), ch.package,
                                             ch.from, ch.to))

\* One iteration of `for (const removal of removals)`.
RemovalResult(rm, result) ==
    /\ content' = ContentIf(result.removed, result.content, content)
    /\ removed' = CountIf(result.removed, removed)
    /\ nRemovals' = nRemovals + 1
    /\ op' = [NoOp EXCEPT !.kind = "removal", !.type = rm.type, !.package = rm.package,
                          !.before = content, !.flag = result.removed,
                          !.count = removed]
    /\ UNCHANGED <<cli, pkgFile, pkgStatus, bakFile, bakExists, pc, applied, enginesUpdated,
                   nChanges, orig, log, solution, changes>>

RemovalStep(rm) ==
    RemovalResult(rm, removePackageFromSection(content, SectionOf(rm.type), rm.package))

\* if (engines && Object.keys(engines).length > 0) { ... updateEngines ... }
EnginesResult(eng, result) ==
    /\ content' = result.content
    /\ enginesUpdated' = result.updated
    /\ op' = [NoOp EXCEPT !.kind = "engines", !.engines = eng, !.before = content,
                          !.flag = Len(eng) > 0]
    /\ pc' = "write"
    /\ UNCHANGED <<cli, pkgFile, pkgStatus, bakFile, bakExists, applied, removed,
                   nChanges, nRemovals, orig, log, solution, changes>>

EnginesStep(eng) ==
    EnginesResult(eng, IF Len(eng) > 0 THEN updateEngines(content, eng)
                       ELSE [content |-> content, updated |-> enginesUpdated])

ApplyChange ==
    /\ pc = "changes"
    /\ nChanges < MaxChanges
    /\ \E ch \in ChangeInputs : ChangeStep(ch)

EndChanges ==
    /\ pc = "changes"
    /\ pc' = "removals"
    /\ op' = NoOp
    /\ UNCHANGED <<cli, pkgFile, pkgStatus, bakFile, bakExists, content, applied, removed,
                   enginesUpdated, nChanges, nRemovals, orig, log, solution, changes>>

ApplyRemoval ==
    /\ pc = "removals"
    /\ nRemovals < MaxRemovals
    /\ \E rm \in RemovalInputs : RemovalStep(rm)

EndRemovals ==
    /\ pc = "removals"
    /\ pc' = "engines"
    /\ op' = NoOp
    /\ UNCHANGED <<cli, pkgFile, pkgStatus, bakFile, bakExists, content, applied, removed,
                   enginesUpdated, nChanges, nRemovals, orig, log, solution, changes>>

ApplyEngines ==
    /\ pc = "engines"
    /\ \E eng \in EngineInputs : EnginesStep(eng)

\* fs.writeFile(filePath, content): truncated, then complete.
WriteOpen ==
    /\ pc = "write"
    /\ pkgFile' = <<>>
    /\ log' = Append(log, "write_open")
    /\ pc' = "write_writing"
    /\ op' = NoOp
    /\ UNCHANGED <<cli, pkgStatus, bakFile, bakExists, content, applied, removed, enginesUpdated,
                   nChanges, nRemovals, orig, solution, changes>>

WriteDone ==
    /\ pc = "write_writing"
    /\ pkgFile' = content
    /\ log' = Append(log, "write_done")
    /\ pc' = "done"
    /\ UNCHANGED <<cli, pkgStatus, bakFile, bakExists, content, applied, removed, enginesUpdated,
                   nChanges, nRemovals, orig, op, solution, changes>>

\* The process dies in the middle of a write.
Crash ==
    /\ pc \in {"backup_writing", "write_writing"}
    /\ pc' = "crashed"
    /\ UNCHANGED <<cli, pkgFile, pkgStatus, bakFile, bakExists, content, applied, removed,
                   enginesUpdated, nChanges, nRemovals, orig, log, op, solution, changes>>

Init ==
    /\ pkgStatus \in {"ok", "ENOENT", "EACCES"}
    /\ pkgFile \in IF pkgStatus = "ENOENT" THEN {<<>>} ELSE Texts
    /\ bakFile = <<>>
    /\ bakExists = FALSE
    /\ pc = "start"
    /\ content = <<>>
    /\ applied = 0
    /\ removed = 0
    /\ enginesUpdated = 0
    /\ nChanges = 0
    /\ nRemovals = 0
    /\ orig = pkgFile
    /\ log = <<>>
    /\ op = NoOp
    /\ solution = NoSolution
    /\ changes = <<>>
    /\ cli = NoCli

Next ==
    \/ ReadFile
    \/ BackupOpen
    \/ BackupDone
    \/ ApplyChange
    \/ EndChanges
    \/ ApplyRemoval
    \/ EndRemovals
    \/ ApplyEngines
    \/ WriteOpen
    \/ WriteDone
    \/ Crash

Spec == Init /\ [][Next]_vars

---------------------------------------------------------------------------
(* The fix pipeline of the migrate command: the changes are computed by    *)
(* getChanges from the parsed package.json and the solution of the server, *)
(* the removals and the engines are those of the solution, and             *)
(* applySurgicalFixes is run on them.                                      *)

\* Object.entries of a solution section: no entry or one.
SolutionEntries(pkgs, versions) ==
    {<<>>} \cup { <<[package |-> p, version |-> v]>> : p \in pkgs, v \in versions }

\* The solutions of the server: bare, prefixed and unchanged versions, a
\* version with a two-character operator, the REMOVE marker, two entries in
\* an order that is not that of package.json, a removal, an engines constraint.
Solutions ==
    { [dependencies |-> d, devDependencies |-> dd, removals |-> r, engines |-> e] :
        d \in SolutionEntries({PKG_B, PKG_AB}, {V11, VC11}) \cup
               SolutionEntries({PKG_B}, {V10, REMOVE_UPPER, GE11}) \cup
               { <<[package |-> PKG_B, version |-> VC11],
                   [package |-> PKG_AB, version |-> V11]>> },
        dd \in SolutionEntries({PKG_B}, {V11}),
        r \in { <<>>, <<[package |-> PKG_B, type |-> "dependency"]>> },
        e \in { <<>>, <<[key |-> NODE, value |-> NODE18]>> } }

\* A package.json whose runtime section declares lodash, then axios, and a
\* solution that upgrades the first and removes the second.
LODASH == <<"l", "o", "d", "a", "s", "h">>
AXIOS == <<"a", "x", "i", "o", "s">>
LODASH_DECLARED == <<"^", "4", ".", "1", "7", ".", "0">>
AXIOS_DECLARED == <<"^", "0", ".", "2", "1", ".", "0">>
LODASH_PROPOSED == <<"4", ".", "1", "7", ".", "2", "1">>

ScenarioText ==
    JoinLines(<< <<"{">>,
                 <<SP, SP>> \o Quoted(NAME) \o <<":", SP>> \o Quoted(<<"x">>) \o <<",">>,
                 <<SP, SP>> \o Quoted(DEPENDENCIES) \o <<":", SP, "{">>,
                 INDENT \o Quoted(LODASH) \o <<":", SP>> \o Quoted(LODASH_DECLARED) \o <<",">>,
                 INDENT \o Quoted(AXIOS) \o <<":", SP>> \o Quoted(AXIOS_DECLARED),
                 <<SP, SP, "}">>,
                 <<"}">> >>)

ScenarioSolution ==
    [dependencies |-> <<[package |-> LODASH, version |-> LODASH_PROPOSED],
                        [package |-> AXIOS, version |-> REMOVE_UPPER]>>,
     devDependencies |-> <<>>,
     removals |-> <<[package |-> AXIOS, type |-> "dependency"]>>,
     engines |-> <<>>]

mapRemovals(removals) ==
    [i \in 1..Len(removals) |-> [package |-> removals[i].package, type |-> removals[i].type]]

\* packageJsonService.read, then getChanges(ctx.parsed, fixResult.solution).
Plan ==
    /\ pc = "plan"
    /\ \E S \in Solutions \cup {ScenarioSolution} :
          /\ solution' = S
          /\ changes' = getChanges(JSONParse(pkgFile).val, S)
    /\ pc' = "start"
    /\ UNCHANGED <<cli, pkgFile, pkgStatus, bakFile, bakExists, content, applied, removed,
                   enginesUpdated, nChanges, nRemovals, orig, log, op>>

PlannedChange ==
    /\ pc = "changes"
    /\ nChanges < Len(changes)
    /\ ChangeStep(changes[nChanges + 1])

EndPlannedChanges == nChanges = Len(changes) /\ EndChanges

PlannedRemoval ==
    /\ pc = "removals"
    /\ nRemovals < Len(solution.removals)
    /\ RemovalStep(mapRemovals(solution.removals)[nRemovals + 1])

EndPlannedRemovals == nRemovals = Len(solution.removals) /\ EndRemovals

PlannedEngines == pc = "engines" /\ EnginesStep(solution.engines)

InitPipeline ==
    /\ pkgStatus = "ok"
    /\ pkgFile \in Texts \cup {ScenarioText}
    /\ bakFile = <<>>
    /\ bakExists = FALSE
    /\ pc = "plan"
    /\ content = <<>>
    /\ applied = 0
    /\ removed = 0
    /\ enginesUpdated = 0
    /\ nChanges = 0
    /\ nRemovals = 0
    /\ orig = pkgFile
    /\ log = <<>>
    /\ op = NoOp
    /\ solution = NoSolution
    /\ changes = <<>>
    /\ cli = NoCli

NextPipeline ==
    \/ Plan
    \/ ReadFile
    \/ BackupOpen
    \/ BackupDone
    \/ PlannedChange
    \/ EndPlannedChanges
    \/ PlannedRemoval
    \/ EndPlannedRemovals
    \/ PlannedEngines
    \/ WriteOpen
    \/ WriteDone

SpecPipeline == InitPipeline /\ [][NextPipeline]_vars

---------------------------------------------------------------------------
(* applySurgicalFixes on a package.json that is not valid JSON: the        *)
(* function reads the file itself and is given whatever text it holds.     *)

\* Files cut short of their last character, the closing brace of the document.
MalformedTexts == { SubSeq(t, 1, Len(t) - 1) : t \in Texts }

InitMalformed ==
    /\ pkgStatus = "ok"
    /\ pkgFile \in MalformedTexts
    /\ bakFile = <<>>
    /\ bakExists = FALSE
    /\ pc = "start"
    /\ content = <<>>
    /\ applied = 0
    /\ removed = 0
    /\ enginesUpdated = 0
    /\ nChanges = 0
    /\ nRemovals = 0
    /\ orig = pkgFile
    /\ log = <<>>
    /\ op = NoOp
    /\ solution = NoSolution
    /\ changes = <<>>
    /\ cli = NoCli

SpecMalformed == InitMalformed /\ [][Next]_vars

---------------------------------------------------------------------------
(* VersionUtils on one proposed version: the two tests of getChanges, then *)
(* formatVersion.  log holds the answers of the tests, op.to the result of *)
(* the format.                                                             *)

\* The proposed versions: a body (empty, a number, a wildcard, a tag, the
\* markers in several cases, a range) after a prefix (none, one or two
\* operator characters, a letter, a word and a space).
VersionSpecs ==
    { pre \o body :
        pre \in
        { <<>>,
          <<"^">>,
          <<"~">>,
          <<">">>,
          <<"<">>,
          <<"=">>,
          <<">", "=">>,
          <<"<", "=">>,
          <<"v">>,
          <<"x", " ">> },
        body \in
        { <<>>,
          <<"1", ".", "0">>,
          <<"*">>,
          <<"l", "a", "t", "e", "s", "t">>,
          <<"R", "E", "M", "O", "V", "E">>,
          <<"r", "e", "m", "o", "v", "e">>,
          <<"R", "e", "m", "o", "v", "e", " ", "o", "r", " ", "r", "e", "p", "l", "a", "c", "e">>,
          <<"u", "n", "k", "n", "o", "w", "n">>,
          <<"N", "o", "t", " ", "A", "v", "a", "i", "l", "a", "b", "l", "e">>,
          <<"P", "e", "n", "d", "i", "n", "g">>,
          <<"m", "a", "n", "u", "a", "l", "R", "e", "v", "i", "e", "w", "R", "e", "q", "u", "i", "r", "e", "d">>,
          <<"1", " ", "|", "|", " ", "2">> } }

\* VersionUtils.isUnknownVersion(versionStr) || VersionUtils.isRemoveVersion(versionStr),
\* each answer kept.
ClassifyVersion ==
    /\ pc = "version"
    /\ log' = << IF isUnknownVersion(op.from) THEN "unknown" ELSE "known",
                 IF isRemoveVersion(op.from) THEN "remove" ELSE "keep" >>
    /\ pc' = "classified"
    /\ UNCHANGED <<cli, pkgFile, pkgStatus, bakFile, bakExists, content, applied, removed,
                   enginesUpdated, nChanges, nRemovals, orig, op, solution, changes>>

\* VersionUtils.formatVersion(versionStr)
FormatVersion ==
    /\ pc = "classified"
    /\ op' = [op EXCEPT !.to = formatVersion(op.from)]
    /\ pc' = "formatted"
    /\ UNCHANGED <<cli, pkgFile, pkgStatus, bakFile, bakExists, content, applied, removed,
                   enginesUpdated, nChanges, nRemovals, orig, log, solution, changes>>

InitVersions ==
    /\ pkgStatus = "ok"
    /\ pkgFile = <<>>
    /\ bakFile = <<>>
    /\ bakExists = FALSE
    /\ pc = "version"
    /\ content = <<>>
    /\ applied = 0
    /\ removed = 0
    /\ enginesUpdated = 0
    /\ nChanges = 0
    /\ nRemovals = 0
    /\ orig = <<>>
    /\ log = <<>>
    /\ op \in { [NoOp EXCEPT !.kind = "version", !.from = v] : v \in VersionSpecs }
    /\ solution = NoSolution
    /\ changes = <<>>
    /\ cli = NoCli

NextVersions ==
    \/ ClassifyVersion
    \/ FormatVersion

SpecVersions == InitVersions /\ [][NextVersions]_vars

---------------------------------------------------------------------------
(* sanitize: the object sent to the server in place of the parsed          *)
(* package.json.  A boolean is [t |-> "bool", b |-> TRUE or FALSE].         *)

PRIVATE == <<"p", "r", "i", "v", "a", "t", "e">>
PEERDEPENDENCIES == <<"p", "e", "e", "r", "D", "e", "p", "e", "n", "d", "e", "n", "c", "i", "e", "s">>
RESOLUTIONS == <<"r", "e", "s", "o", "l", "u", "t", "i", "o", "n", "s">>
OVERRIDES == <<"o", "v", "e", "r", "r", "i", "d", "e", "s">>
UNNAMED == <<"u", "n", "n", "a", "m", "e", "d">>

\* ToBoolean of a value: undefined, false and '' are falsy.
Truthy(v) ==
    \/ v.t = "obj"
    \/ v.t = "str" /\ Len(v.s) > 0
    \/ v.t = "bool" /\ v.b

\* pkg[key] || otherwise
OrElse(pkg, key, otherwise) ==
    IF Truthy(Member(pkg, key)) THEN Member(pkg, key) ELSE otherwise

EmptyObject == [t |-> "obj", m |-> <<>>]

\* An object literal that spreads pkg before the listed properties.
sanitize_spread(pkg) == pkg

sanitize(pkg) ==
    [t |-> "obj",
     m |-> << [k |-> NAME, v |-> OrElse(pkg, NAME, [t |-> "str", s |-> UNNAMED])],
              [k |-> VERSION, v |-> Member(pkg, VERSION)],
              [k |-> PRIVATE, v |-> OrElse(pkg, PRIVATE, [t |-> "bool", b |-> FALSE])],
              [k |-> DEPENDENCIES, v |-> OrElse(pkg, DEPENDENCIES, EmptyObject)],
              [k |-> DEVDEPENDENCIES, v |-> OrElse(pkg, DEVDEPENDENCIES, EmptyObject)],
              [k |-> PEERDEPENDENCIES, v |-> OrElse(pkg, PEERDEPENDENCIES, EmptyObject)],
              [k |-> RESOLUTIONS, v |-> OrElse(pkg, RESOLUTIONS, EmptyObject)],
              [k |-> OVERRIDES, v |-> OrElse(pkg, OVERRIDES, EmptyObject)],
              [k |-> ENGINES, v |-> OrElse(pkg, ENGINES, EmptyObject)] >>]

\* The members a parsed package.json may have: fields sanitize lists, some
\* of them falsy, and fields it does not list.
PkgMembers ==
    << [k |-> NAME, v |-> [t |-> "str", s |-> <<"x">>]],
       [k |-> NAME, v |-> [t |-> "str", s |-> <<>>]],
       [k |-> VERSION, v |-> [t |-> "str", s |-> V10]],
       [k |-> PRIVATE, v |-> [t |-> "bool", b |-> TRUE]],
       [k |-> <<"s", "c", "r", "i", "p", "t", "s">>,
        v |-> [t |-> "obj", m |-> <<[k |-> <<"b", "u", "i", "l", "d">>, v |-> [t |-> "str", s |-> <<"t", "s", "c">>]]>>]],
       [k |-> DEPENDENCIES,
        v |-> [t |-> "obj", m |-> <<[k |-> PKG_B, v |-> [t |-> "str", s |-> V10]]>>]],
       [k |-> <<"a", "u", "t", "h", "o", "r">>, v |-> [t |-> "str", s |-> <<"m", "e">>]],
       [k |-> OVERRIDES,
        v |-> [t |-> "obj", m |-> <<[k |-> PKG_AB, v |-> [t |-> "str", s |-> V11]]>>]],
       [k |-> ENGINES, v |-> [t |-> "str", s |-> NODE18]],
       [k |-> <<"t", "o", "k", "e", "n">>, v |-> [t |-> "str", s |-> <<"s", "3", "c", "r", "e", "t">>]] >>

\* The parsed documents: any choice of these members, in their order.
Pkgs ==
    { [t |-> "obj", m |-> Pick(PkgMembers, I)] : I \in SUBSET (1..Len(PkgMembers)) }

\* const sanitized = packageJsonService.sanitize(parsed)
Sanitize ==
    /\ pc = "sanitize"
    /\ cli' = [cli EXCEPT !.sanitized = sanitize(cli.parsed)]
    /\ pc' = "sanitized"
    /\ UNCHANGED <<pkgFile, pkgStatus, bakFile, bakExists, content, applied, removed,
                   enginesUpdated, nChanges, nRemovals, orig, log, op, solution, changes>>

InitSanitize ==
    /\ pkgStatus = "ok"
    /\ pkgFile = <<>>
    /\ bakFile = <<>>
    /\ bakExists = FALSE
    /\ pc = "sanitize"
    /\ content = <<>>
    /\ applied = 0
    /\ removed = 0
    /\ enginesUpdated = 0
    /\ nChanges = 0
    /\ nRemovals = 0
    /\ orig = <<>>
    /\ log = <<>>
    /\ op = NoOp
    /\ solution = NoSolution
    /\ changes = <<>>
    /\ cli \in { [command |-> "sanitize", parsed |-> d, sanitized |-> Undefined] : d \in Pkgs }

SpecSanitize == InitSanitize /\ [][Sanitize]_vars

---------------------------------------------------------------------------
(* applySurgicalFixes on texts that try the bounds of a section: an entry  *)
(* after a nested object value, an entry of the same name after the        *)
(* closing brace of the section, and sections whose brace never closes.    *)

EntryLine(pkg, version) == INDENT \o Quoted(pkg) \o <<":", SP>> \o Quoted(version)

NestedLine(pkg, inner, version) ==
    INDENT \o Quoted(pkg) \o <<":", SP, "{">> \o Quoted(inner) \o <<":", SP>>
           \o Quoted(version) \o <<"}">>

SectionHeaderLine(key) == <<SP, SP>> \o Quoted(key) \o <<":", SP, "{">>

RegionTexts ==
    { JoinLines(<< <<"{">>,
                   SectionHeaderLine(DEPENDENCIES),
                   Comma(NestedLine(PKG_AXB, PKG_B, V11), TRUE),
                   EntryLine(PKG_B, V10),
                   <<SP, SP, "}", ",">>,
                   <<SP, SP>> \o Quoted(PKG_B) \o <<":", SP>> \o Quoted(V10),
                   <<"}">> >>),
      JoinLines(<< <<"{">>,
                   SectionHeaderLine(DEPENDENCIES),
                   EntryLine(PKG_AXB, V10),
                   <<SP, SP, "}", ",">>,
                   <<SP, SP>> \o Quoted(PKG_B) \o <<":", SP>> \o Quoted(V10),
                   <<"}">> >>),
      JoinLines(<< <<"{">>,
                   SectionHeaderLine(DEPENDENCIES),
                   EntryLine(PKG_B, V10) >>),
      JoinLines(<< <<"{">>,
                   SectionHeaderLine(DEVDEPENDENCIES),
                   Comma(NestedLine(PKG_AXB, PKG_B, V10), TRUE),
                   EntryLine(PKG_B, V10) >>) }

InitRegion ==
    /\ pkgStatus = "ok"
    /\ pkgFile \in RegionTexts
    /\ bakFile = <<>>
    /\ bakExists = FALSE
    /\ pc = "start"
    /\ content = <<>>
    /\ applied = 0
    /\ removed = 0
    /\ enginesUpdated = 0
    /\ nChanges = 0
    /\ nRemovals = 0
    /\ orig = pkgFile
    /\ log = <<>>
    /\ op = NoOp
    /\ solution = NoSolution
    /\ changes = <<>>
    /\ cli = NoCli

SpecRegion == InitRegion /\ [][Next]_vars

---------------------------------------------------------------------------
(* applySurgicalFixes on manifests with an engines block: indented by two  *)
(* spaces a level, by four spaces a level, and empty.                      *)

\* A line of `level` levels of indentation of `unit` spaces each.
Indented(unit, level, line) == [i \in 1..(unit * level) |-> SP] \o line

\* { "name": "x", "engines": { <entries> } } laid out with `unit` spaces a level.
EnginesText(unit, eng) ==
    JoinLines(<< <<"{">>,
                 Indented(unit, 1, Quoted(NAME) \o <<":", SP>> \o Quoted(<<"x">>) \o <<",">>) >>
              \o (IF Len(eng) = 0
                  THEN << Indented(unit, 1, Quoted(ENGINES) \o <<":", SP, "{", "}">>) >>
                  ELSE << Indented(unit, 1, Quoted(ENGINES) \o <<":", SP, "{">>) >>
                       \o [i \in 1..Len(eng) |->
                             Comma(Indented(unit, 2, Quoted(eng[i].key) \o <<":", SP>>
                                                         \o Quoted(eng[i].value)),
                                   i < Len(eng))]
                       \o << Indented(unit, 1, <<"}">>) >>)
              \o << <<"}">> >>)

EnginesTexts == { EnginesText(unit, eng) : unit \in {2, 4}, eng \in EngineBlocks }

InitEngines ==
    /\ pkgStatus = "ok"
    /\ pkgFile \in EnginesTexts
    /\ bakFile = <<>>
    /\ bakExists = FALSE
    /\ pc = "start"
    /\ content = <<>>
    /\ applied = 0
    /\ removed = 0
    /\ enginesUpdated = 0
    /\ nChanges = 0
    /\ nRemovals = 0
    /\ orig = pkgFile
    /\ log = <<>>
    /\ op = NoOp
    /\ solution = NoSolution
    /\ changes = <<>>
    /\ cli = NoCli

SpecEngines == InitEngines /\ [][Next]_vars

---------------------------------------------------------------------------
(* applySurgicalFixes invoked again on the same directory after it has     *)
(* returned.  cli counts the invocations and keeps the text the previous   *)
(* invocation started from; orig is the text the current one started from. *)

MaxRuns == 2

\* The complete documents among the texts above, and one with an empty
\* engines block.
RepeatTexts == { t \in RegionTexts : t[Len(t)] = "}" } \cup { EnginesText(2, <<>>) }

\* The next call of applySurgicalFixes: its locals are fresh, the files are
\* those the last call left.
InvokeAgain ==
    /\ pc = "done"
    /\ cli.runs < MaxRuns
    /\ cli' = [cli EXCEPT !.runs = cli.runs + 1, !.previous = orig]
    /\ orig' = pkgFile
    /\ pc' = "start"
    /\ content' = <<>>
    /\ applied' = 0
    /\ removed' = 0
    /\ enginesUpdated' = 0
    /\ nChanges' = 0
    /\ nRemovals' = 0
    /\ log' = <<>>
    /\ op' = NoOp
    /\ UNCHANGED <<pkgFile, pkgStatus, bakFile, bakExists, solution, changes>>

InitRepeat ==
    /\ pkgStatus = "ok"
    /\ pkgFile \in RepeatTexts
    /\ bakFile = <<>>
    /\ bakExists = FALSE
    /\ pc = "start"
    /\ content = <<>>
    /\ applied = 0
    /\ removed = 0
    /\ enginesUpdated = 0
    /\ nChanges = 0
    /\ nRemovals = 0
    /\ orig = pkgFile
    /\ log = <<>>
    /\ op = NoOp
    /\ solution = NoSolution
    /\ changes = <<>>
    /\ cli = [command |-> "again", runs |-> 1, previous |-> <<>>]

NextRepeat ==
    \/ Next
    \/ InvokeAgain

SpecRepeat == InitRepeat /\ [][NextRepeat]_vars

---------------------------------------------------------------------------
(* formatVersion applied to a version and then to its own result, as when  *)
(* a version written by one run is proposed again to the next.             *)

FormatOnce ==
    /\ pc = "format"
    /\ cli' = [cli EXCEPT !.once = formatVersion(cli.version)]
    /\ pc' = "formatted"
    /\ UNCHANGED engineVarsButPc

FormatTwice ==
    /\ pc = "formatted"
    /\ cli' = [cli EXCEPT !.twice = formatVersion(cli.once)]
    /\ pc' = "reformatted"
    /\ UNCHANGED engineVarsButPc

InitFormat ==
    /\ pkgStatus = "ok"
    /\ pkgFile = <<>>
    /\ bakFile = <<>>
    /\ bakExists = FALSE
    /\ pc = "format"
    /\ content = <<>>
    /\ applied = 0
    /\ removed = 0
    /\ enginesUpdated = 0
    /\ nChanges = 0
    /\ nRemovals = 0
    /\ orig = <<>>
    /\ log = <<>>
    /\ op = NoOp
    /\ solution = NoSolution
    /\ changes = <<>>
    /\ cli \in [command : {"format"}, version : VersionSpecs, once : {<<>>}, twice : {<<>>}]

NextFormat ==
    \/ FormatOnce
    \/ FormatTwice

SpecFormat == InitFormat /\ [][NextFormat]_vars

---------------------------------------------------------------------------
(* The default command with --ci: smartCommand, handleCiMode, handleError  *)
(* and the caller of smartCommand in index.ts.  cli holds the options, what *)
(* each call of the command will meet, and the exit code (-1 while the     *)
(* process runs).                                                          *)

\* process.exit(code)
Exit(code) ==
    /\ cli' = [cli EXCEPT !.exitCode = code]
    /\ pc' = "exited"
    /\ UNCHANGED engineVarsButPc

\* handleError: process.exit(options.ci ? 2 : 1)
handleError == Exit(IF cli.ci THEN 2 ELSE 1)

\* getDeviceId(), called before the try block of smartCommand: what it throws
\* rejects the promise of smartCommand, and the caller exits with 1.
GetDeviceId ==
    /\ pc = "deviceId"
    /\ IF cli.deviceId = "throws" THEN Exit(1)
       ELSE pc' = "initialize" /\ UNCHANGED <<cli, engineVarsButPc>>

\* const ctx = await initializeContext(projectDir, options), in the try block;
\* then `if (options.ci)`.
InitializeContext ==
    /\ pc = "initialize"
    /\ IF cli.read = "throws" THEN handleError
       ELSE /\ pc' = IF cli.ci THEN "auth" ELSE "interactive"
            /\ UNCHANGED <<cli, engineVarsButPc>>

\* handleCiMode: authManager.getAuthHeader(), outside the try block of
\* handleCiMode and inside that of smartCommand.
GetAuthHeader ==
    /\ pc = "auth"
    /\ IF cli.auth = "throws" THEN handleError
       ELSE IF cli.auth = "none" THEN Exit(2)
       ELSE pc' = "analyze" /\ UNCHANGED <<cli, engineVarsButPc>>

\* handleCiMode: apiClient.analyzeForCi and the test of its response; a
\* response without a summary makes the sum of the issue counts throw.
AnalyzeForCi ==
    /\ pc = "analyze"
    /\ IF cli.response \in {"throws", "failure", "nodata", "nosummary"} THEN Exit(2)
       ELSE pc' = "output" /\ UNCHANGED <<cli, engineVarsButPc>>

\* outputCiJsonResult and outputCiHumanResult
OutputCiResult ==
    /\ pc = "output"
    /\ IF cli.json THEN Exit(IF cli.response = "attention" THEN 1 ELSE 0)
       ELSE IF cli.response = "attention" THEN Exit(1)
       ELSE IF cli.response = "issues" THEN Exit(0)
       ELSE Exit(0)

InitCi ==
    /\ pkgStatus = "ok"
    /\ pkgFile = <<>>
    /\ bakFile = <<>>
    /\ bakExists = FALSE
    /\ pc = "deviceId"
    /\ content = <<>>
    /\ applied = 0
    /\ removed = 0
    /\ enginesUpdated = 0
    /\ nChanges = 0
    /\ nRemovals = 0
    /\ orig = <<>>
    /\ log = <<>>
    /\ op = NoOp
    /\ solution = NoSolution
    /\ changes = <<>>
    /\ cli \in [command : {"smart"}, ci : BOOLEAN, json : BOOLEAN,
                deviceId : {"ok", "throws"}, read : {"ok", "throws"},
                auth : {"header", "none", "throws"},
                response : {"throws", "failure", "nodata", "nosummary",
                            "attention", "issues", "clean"},
                exitCode : {-1}]

NextCi ==
    \/ GetDeviceId
    \/ InitializeContext
    \/ GetAuthHeader
    \/ AnalyzeForCi
    \/ OutputCiResult

SpecCi == InitCi /\ [][NextCi]_vars

---------------------------------------------------------------------------
(* CliAnalytics: the constructor, track and trackSync.  cli holds the      *)
(* environment of the process, the field isEnabled, the events the command *)
(* has handed to track or trackSync (calls) and those for which a request  *)
(* was issued (sent).                                                      *)

MaxEvents == 3

\* const API_URL = process.env.DEPFIXER_API_URL || 'https://api.depfixer.com/api/v1'
API_URL == "https://api.depfixer.com/api/v1"

isEnabled_always(nodeEnv, disable) == TRUE

\* the constructor: isEnabled is true unless NODE_ENV is 'test' or
\* DEPFIXER_DISABLE_ANALYTICS is 'true'
isEnabled(nodeEnv, disable) == ~(nodeEnv = "test" \/ disable = "true")

\* The convenience methods of the model and the category each one sends.
TrackedEvents == {"analyze_started", "fix_applied"}
SyncEvents == {"session_ended"}

\* track and trackSync up to the request: nothing when disabled or when
\* getAccessToken throws (caught, silent), one request otherwise.
Issue(event) ==
    IF ~cli.isEnabled \/ API_URL = "" THEN cli.sent
    ELSE IF cli.token = "throws" THEN cli.sent
    ELSE Append(cli.sent, event)

Constructor ==
    /\ pc = "construct"
    /\ pc' = "run"
    /\ cli' = [cli EXCEPT !.isEnabled = isEnabled(cli.NODE_ENV, cli.DEPFIXER_DISABLE_ANALYTICS)]
    /\ UNCHANGED engineVarsButPc

\* analytics.analyzeStarted(...), analytics.fixApplied(...): this.track(...)
Track ==
    /\ pc = "run"
    /\ Len(cli.calls) < MaxEvents
    /\ \E e \in TrackedEvents :
          cli' = [cli EXCEPT !.calls = Append(cli.calls, e), !.sent = Issue(e)]
    /\ UNCHANGED <<pc, engineVarsButPc>>

\* analytics.sessionEnded(...): await this.trackSync(...)
TrackSync ==
    /\ pc = "run"
    /\ Len(cli.calls) < MaxEvents
    /\ \E e \in SyncEvents :
          cli' = [cli EXCEPT !.calls = Append(cli.calls, e), !.sent = Issue(e)]
    /\ UNCHANGED <<pc, engineVarsButPc>>

InitAnalytics ==
    /\ pkgStatus = "ok"
    /\ pkgFile = <<>>
    /\ bakFile = <<>>
    /\ bakExists = FALSE
    /\ pc = "construct"
    /\ content = <<>>
    /\ applied = 0
    /\ removed = 0
    /\ enginesUpdated = 0
    /\ nChanges = 0
    /\ nRemovals = 0
    /\ orig = <<>>
    /\ log = <<>>
    /\ op = NoOp
    /\ solution = NoSolution
    /\ changes = <<>>
    /\ cli \in [command : {"analytics"},
                DEPFIXER_DISABLE_ANALYTICS : {"unset", "true", "false", "TRUE", "1"},
                NODE_ENV : {"unset", "test", "production"},
                token : {"token", "none", "throws"},
                isEnabled : {TRUE}, calls : {<<>>}, sent : {<<>>}]

NextAnalytics ==
    \/ Constructor
    \/ Track
    \/ TrackSync

SpecAnalytics == InitAnalytics /\ [][NextAnalytics]_vars

---------------------------------------------------------------------------
(* Payment and session status in the default command (handlePaymentFlow,   *)
(* then the application of the fixes) and in the fix command               *)
(* (handleUnpaidSession).  cli holds the answers the command will get, the *)
(* status stored in the session file, and whether credits were deducted.   *)

\* sessionManager.updateStatus('PAID')
updateStatus(status) == [cli EXCEPT !.status = status]

\* The command ends: it returns, exits or throws to its caller.
EndCommand ==
    /\ pc' = "ended"
    /\ UNCHANGED engineVarsButPc

\* The prompt and ensureReadyToPay (fix), the logged-in or anonymous payment
\* flow (default command): the command stops unless the user is ready to pay.
ReadyToPay ==
    /\ pc = "pay"
    /\ IF cli.shouldPay /\ cli.ready
       THEN pc' = "deduct" /\ UNCHANGED <<cli, engineVarsButPc>>
       ELSE EndCommand /\ UNCHANGED cli

\* paymentFlow.deductCredits; the default command updates the status at once.
DeductCredits ==
    /\ pc = "deduct"
    /\ IF cli.deduct # "solution"
       THEN EndCommand /\ UNCHANGED cli
       ELSE /\ cli' = IF cli.command = "smart"
                      THEN [updateStatus("PAID") EXCEPT !.deducted = TRUE]
                      ELSE [cli EXCEPT !.deducted = TRUE]
            /\ pc' = IF cli.command = "smart" THEN "apply" ELSE "changes?"
            /\ UNCHANGED engineVarsButPc

\* handleUnpaidSession: if (changes.length === 0 && removals.length === 0)
NoChangesNeeded ==
    /\ pc = "changes?"
    /\ IF cli.nothingToDo
       THEN cli' = updateStatus("PAID") /\ EndCommand
       ELSE pc' = "apply" /\ UNCHANGED <<cli, engineVarsButPc>>

\* applySurgicalFixes: when it throws the command ends in its catch block;
\* when it returns, the fix command updates the status.
ApplyFixes ==
    /\ pc = "apply"
    /\ cli' = IF cli.apply = "returns" /\ cli.command = "fix" THEN updateStatus("PAID")
              ELSE cli
    /\ EndCommand

InitPayment ==
    /\ pkgStatus = "ok"
    /\ pkgFile = <<>>
    /\ bakFile = <<>>
    /\ bakExists = FALSE
    /\ pc = "pay"
    /\ content = <<>>
    /\ applied = 0
    /\ removed = 0
    /\ enginesUpdated = 0
    /\ nChanges = 0
    /\ nRemovals = 0
    /\ orig = <<>>
    /\ log = <<>>
    /\ op = NoOp
    /\ solution = NoSolution
    /\ changes = <<>>
    /\ cli \in [command : {"smart", "fix"}, status : {"UNPAID"},
                shouldPay : BOOLEAN, ready : BOOLEAN, hasActivePass : BOOLEAN,
                deduct : {"solution", "failure", "nosolution"},
                nothingToDo : BOOLEAN, apply : {"returns", "throws"},
                deducted : {FALSE}]

NextPayment ==
    \/ ReadyToPay
    \/ DeductCredits
    \/ NoChangesNeeded
    \/ ApplyFixes

SpecPayment == InitPayment /\ [][NextPayment]_vars

---------------------------------------------------------------------------
(* The fix command from its read of package.json to the read inside        *)
(* applySurgicalFixes, with another process that may write package.json in *)
(* between.  cli holds the session, the text the command read, the outcome *)
(* of verifyHash, the answer to "Apply anyway?" and the number of writes   *)
(* by the other process.                                                   *)

MaxEdits == 1

\* calculateHash: SHA-256 of the text, taken to be free of collisions.
calculateHash(text) == <<"sha256">> \o text

\* verifyHash(currentContent)
verifyHash(currentContent) == calculateHash(currentContent) = cli.originalFileHash

\* const { content, parsed } = await packageJsonService.read(projectDir)
ReadManifest ==
    /\ pc = "read"
    /\ cli' = [cli EXCEPT !.content = pkgFile]
    /\ pc' = "verify"
    /\ UNCHANGED engineVarsButPc

\* handleSessionFlow: verifyHash, and "Apply anyway?" on a mismatch.
VerifyHash ==
    /\ pc = "verify"
    /\ cli' = [cli EXCEPT !.hashValid = verifyHash(cli.content),
                          !.asked = ~verifyHash(cli.content)]
    /\ pc' = IF ~verifyHash(cli.content) /\ ~cli.applyAnyway THEN "ended" ELSE "session"
    /\ UNCHANGED engineVarsButPc

\* handleUnpaidSession or handlePaidSession up to the call of
\* applySurgicalFixes: prompts and requests to the server.
FetchSolution ==
    /\ pc = "session"
    /\ pc' = "apply"
    /\ UNCHANGED <<cli, engineVarsButPc>>

\* applySurgicalFixes: let content = await fs.readFile(filePath, 'utf-8')
ReadToPatch ==
    /\ pc = "apply"
    /\ content' = pkgFile
    /\ pc' = "patching"
    /\ UNCHANGED <<cli, pkgFile, pkgStatus, bakFile, bakExists, applied, removed,
                   enginesUpdated, nChanges, nRemovals, orig, log, op, solution, changes>>

\* Another process (an editor, npm install) writes package.json while the
\* command waits.
ExternalEdit ==
    /\ pc \in {"verify", "session", "apply"}
    /\ cli.edits < MaxEdits
    /\ cli' = [cli EXCEPT !.edits = cli.edits + 1]
    /\ \E t \in EnginesTexts : t # pkgFile /\ pkgFile' = t
    /\ UNCHANGED <<pc, pkgStatus, bakFile, bakExists, content, applied, removed,
                   enginesUpdated, nChanges, nRemovals, orig, log, op, solution, changes>>

InitFix ==
    /\ pkgStatus = "ok"
    /\ pkgFile \in EnginesTexts
    /\ bakFile = <<>>
    /\ bakExists = FALSE
    /\ pc = "read"
    /\ content = <<>>
    /\ applied = 0
    /\ removed = 0
    /\ enginesUpdated = 0
    /\ nChanges = 0
    /\ nRemovals = 0
    /\ orig = pkgFile
    /\ log = <<>>
    /\ op = NoOp
    /\ solution = NoSolution
    /\ changes = <<>>
    /\ cli \in [command : {"fix"},
                originalFileHash : { calculateHash(t) : t \in EnginesTexts },
                applyAnyway : BOOLEAN,
                content : {<<>>}, hashValid : {FALSE}, asked : {FALSE},
                edits : {0}]

NextFix ==
    \/ ReadManifest
    \/ VerifyHash
    \/ FetchSolution
    \/ ReadToPatch
    \/ ExternalEdit

SpecFix == InitFix /\ [][NextFix]_vars

---------------------------------------------------------------------------
(* Properties.  While op.kind is not "none", op.before is the text the     *)
(* last patch operation was given and content the text it left.            *)

Doc(t) == JSONParse(t)

Str(v) == [t |-> "str", s |-> v]

\* The parsed document with the value of `pkg` in `section` set to `to`.
SetDeclared(doc, section, pkg, to) ==
    [t |-> "obj",
     m |-> [i \in 1..Len(doc.m) |->
              IF doc.m[i].k = section /\ doc.m[i].v.t = "obj"
              THEN [k |-> section,
                    v |-> [t |-> "obj",
                           m |-> [j \in 1..Len(doc.m[i].v.m) |->
                                    IF doc.m[i].v.m[j].k = pkg
                                    THEN [k |-> pkg, v |-> Str(to)]
                                    ELSE doc.m[i].v.m[j]]]]
              ELSE doc.m[i]]]

\* C1: a replaceVersionInSection that reports replaced=true has changed one
\* version token and nothing else: the text is the input with one occurrence of
\* `from` replaced by `to`, and it parses to the input document with the value
\* of `package` in the named section, and no other value, set to `to`.
C1_ReplaceChangesOneToken ==
    (op.kind = "change" /\ op.flag) =>
        /\ \E i \in 1..Len(op.before) :
              /\ SubSeq(op.before, i, i + Len(op.from) - 1) = op.from
              /\ content = SubSeq(op.before, 1, i - 1) \o op.to
                               \o From(op.before, i + Len(op.from))
        /\ Doc(content).ok
        /\ Doc(content).val =
               SetDeclared(Doc(op.before).val, SectionOf(op.type), op.package, op.to)

\* C1 witness: "b" is replaced in dependencies while "a.b" (a name containing
\* it) has the same version there and "b" has the same version in
\* devDependencies.
C1_Witness ==
    /\ op.kind = "change" /\ op.flag
    /\ op.package = PKG_B /\ op.type = "dependency" /\ op.from = V10
    /\ Declared(Doc(op.before).val, DEPENDENCIES, PKG_AB) = V10
    /\ Declared(Doc(op.before).val, DEVDEPENDENCIES, PKG_B) = V10
    /\ Declared(Doc(content).val, DEVDEPENDENCIES, PKG_B) = V10
    /\ Declared(Doc(content).val, DEPENDENCIES, PKG_B) = VC10

\* C6: when the named section does not declare `package` with exactly the
\* version `from` (the section is absent, the package is, or its version
\* differs), replaceVersionInSection reports replaced=false and returns the
\* input text.
C6_NoMatchIsNoOp ==
    (op.kind = "change"
        /\ Declared(Doc(op.before).val, SectionOf(op.type), op.package) # op.from) =>
        (~op.flag /\ content = op.before)

\* C6 witness: "a.b" is not declared but "axb", which the unescaped pattern
\* a.b would match, is declared with the version asked for.
C6_Witness ==
    /\ op.kind = "change" /\ ~op.flag
    /\ op.package = PKG_AB /\ op.type = "dependency" /\ op.from = V10
    /\ Declared(Doc(op.before).val, DEPENDENCIES, PKG_AB) = <<>>
    /\ Declared(Doc(op.before).val, DEPENDENCIES, PKG_AXB) = V10

\* C2: every patch operation given a text that parses as a JSON document
\* leaves a text that parses as one, and so does the whole of
\* applySurgicalFixes: the text written to package.json parses whenever the
\* text read did.
C2_OutputsParse ==
    /\ (op.kind # "none" /\ Doc(op.before).ok) => Doc(content).ok
    /\ (pc = "done" /\ Doc(orig).ok) => Doc(pkgFile).ok

\* The number of characters before line k of a text split into lines.
RECURSIVE Offset(_, _)
Offset(lines, k) == IF k = 1 THEN 0 ELSE Offset(lines, k - 1) + Len(lines[k - 1]) + 1

\* Line k lies between the header of the section and the brace that closes it.
InsideSection(text, section, k) ==
    LET lines == SplitLines(text)
        h == HeaderIndex(text, section)
        e == IF h = 0 THEN 0 ELSE ClosingBrace(text, h)
    IN  h # 0 /\ h <= Offset(lines, k) /\ Offset(lines, k) + Len(lines[k]) < e

\* `after` is `before` without line k, the line above it with or without its
\* trailing comma.
DeletesLine(before, after, k) ==
    /\ Len(after) = Len(before) - 1
    /\ \A i \in (k + 1)..Len(before) : after[i - 1] = before[i]
    /\ \A i \in 1..(k - 2) : after[i] = before[i]
    /\ k > 1 => after[k - 1] \in {before[k - 1], StripTrailingComma(before[k - 1])}

\* The lines a removal may have deleted: declarations of the package whose
\* deletion gives the text left.
RemovedLines(before, after, package) ==
    {k \in 1..Len(before) :
        /\ PackageLineTest(before[k], EscapeRegExp(package))
        /\ DeletesLine(before, after, k)}

\* The last line above line k that is not blank, 0 if there is none.
PrecedingLine(lines, k) ==
    LET above == {j \in 1..(k - 1) : TrimEndLen(lines[j]) > 0}
    IN  IF above = {} THEN 0 ELSE CHOOSE j \in above : \A i \in above : i <= j

\* C7: after a removal, (a) if the removed declaration had no trailing comma
\* and the entry before it ended with one, that entry no longer ends with a
\* comma; (b) if the removed declaration had a trailing comma, every other
\* line is unchanged.
C7_CommaRepair ==
    (op.kind = "removal" /\ op.flag) =>
        LET before == SplitLines(op.before)
            after == SplitLines(content)
            removedLines == RemovedLines(before, after, op.package)
        IN  /\ removedLines # {}
            /\ \A k \in removedLines :
                  LET j == PrecedingLine(before, k)
                  IN  /\ (~TrimEndEndsWithComma(before[k]) /\ j # 0
                              /\ TrimEndEndsWithComma(before[j]))
                          => ~TrimEndEndsWithComma(after[j])
                      /\ TrimEndEndsWithComma(before[k]) => after = Splice(before, k)

\* C8: a removal deletes one line, a declaration of the package that lies
\* inside the named section, and changes nothing else but, possibly, the
\* trailing comma of the line above it.
C8_RemovesOneLineOfSection ==
    (op.kind = "removal" /\ op.flag) =>
        LET before == SplitLines(op.before)
            after == SplitLines(content)
        IN  \E k \in RemovedLines(before, after, op.package) :
                InsideSection(op.before, SectionOf(op.type), k)

\* The number of file operations of one kind logged so far.
Count(event) == Cardinality({i \in 1..Len(log) : log[i] = event})

\* The file operations of a complete invocation, in order.
FullLog == <<"read", "bak_open", "bak_done", "write_open", "write_done">>

\* C3: package.json is read at most once and written at most once; the file
\* operations happen in the order read, backup write, package.json write;
\* once the backup write has completed the backup holds exactly the text that
\* was read, and it has completed whenever the write of package.json has begun.
C3_BackupBeforeWrite ==
    /\ Count("read") <= 1 /\ Count("write_open") <= 1 /\ Count("bak_open") <= 1
    /\ \E n \in 0..Len(FullLog) : log = SubSeq(FullLog, 1, n)
    /\ Count("bak_done") = 1 => (bakExists /\ bakFile = orig)
    /\ Count("write_open") = 1 => (Count("bak_done") = 1 /\ bakFile = orig)
    /\ pc = "done" => log = FullLog

\* C3 witness: an invocation that has completed and written a modified text.
C3_Witness ==
    pc = "done" /\ pkgFile # orig /\ bakFile = orig /\ log = FullLog

\* C4: whatever the invocation has done so far, crashed or not, the text
\* package.json held before the invocation is the content of package.json or
\* of package.json.bak.
C4_OriginalRecoverable ==
    pkgStatus = "ok" => (pkgFile = orig \/ (bakExists /\ bakFile = orig))

\* C4 witness: a crash in the middle of the write of package.json, which has
\* lost its content.
C4_Witness ==
    pc = "crashed" /\ pkgFile # orig /\ Count("write_open") = 1 /\ bakFile = orig

C10_UnreadableLeavesFilesAlone ==
    pkgStatus # "ok" =>
        /\ pc \in {"start", "failed"}
        /\ ~bakExists /\ bakFile = <<>>
        /\ pkgFile = orig
        /\ log = <<>>

\* C10 witness: the invocation has failed on a file it may not read.
C10_Witness ==
    pc = "failed" /\ pkgStatus = "EACCES" /\ ~bakExists /\ pkgFile = orig

\* C5: when the pipeline has run to the end, getChanges on the package.json
\* it has written and the same solution gives no change.
C5_PipelineIdempotent ==
    pc = "done" => getChanges(Doc(pkgFile).val, solution) = <<>>


\* C11: package.json is written only when the text read from it was valid
\* JSON; on a malformed text the invocation fails and leaves package.json
\* as it was.
C11_MalformedNeverWritten ==
    ~Doc(orig).ok => (pkgFile = orig /\ Count("write_open") = 0 /\ pc # "done")


\* `"<key>": "<value>"`, the form in which updateEngines writes a key.
EngineField(e) == Quoted(e.key) \o <<":", SP>> \o Quoted(e.value)

\* The keys of the update that the text holds with the value of the update.
KeysWritten(text, engines) ==
    {i \in 1..Len(engines) :
        Len(engines[i].value) > 0 /\ Includes(text, EngineField(engines[i]))}

\* The text has no engines block and neither a "version" nor a "name" field.
NoAnchor(text) ==
    /\ ~Includes(text, Quoted(ENGINES))
    /\ ~Includes(text, Quoted(VERSION))
    /\ ~Includes(text, Quoted(NAME))

\* C12: updateEngines on a text with no engines block and neither a "version"
\* nor a "name" string field returns the text unchanged and reports 0 keys
\* updated; in every case the number of keys it reports is at most the number
\* of keys of the update that the returned text holds.
C12_EnginesCountIsKeysWritten ==
    (op.kind = "engines" /\ op.flag) =>
        /\ NoAnchor(op.before) => (content = op.before /\ enginesUpdated = 0)
        /\ enginesUpdated <= Cardinality(KeysWritten(content, op.engines))


\* The engines members of a parsed document, one per engines block.
BlocksOf(doc) ==
    IF doc.val.t = "obj"
    THEN SelectSeq(doc.val.m, LAMBDA x : x.k = ENGINES /\ x.v.t = "obj")
    ELSE <<>>

\* The members of the first of the blocks, in the order of the text.
MembersOf(blocks) == IF Len(blocks) = 0 THEN <<>> ELSE blocks[1].v.m

Blocks(text) == BlocksOf(Doc(text))

EngineMembers(text) == MembersOf(Blocks(text))

KeysOf(members) == [i \in 1..Len(members) |-> members[i].k]

\* The keys of the update that have a value, in the order of the update.
UpdateKeys(engines) ==
    LET e == SelectSeq(engines, LAMBDA x : Len(x.value) > 0)
    IN  [i \in 1..Len(e) |-> e[i].key]

UpdateValue(engines, key) ==
    engines[CHOOSE i \in 1..Len(engines) : engines[i].key = key].value

\* C13: after updateEngines on a valid document the document is valid and has
\* at most one engines block; when it has one, every key of the update that
\* has a value occurs exactly once in it, with the value of the update; when
\* the input had a block, the keys of the block are those it had, in the same
\* order, followed by the keys of the update it did not have.
C13_OneBlockNoDuplicateKey ==
    (op.kind = "engines" /\ op.flag) =>
        LET before == Doc(op.before)
            after == Doc(content)
            nb == Len(BlocksOf(before))
            na == Len(BlocksOf(after))
            b == MembersOf(BlocksOf(before))
            a == MembersOf(BlocksOf(after))
            upd == UpdateKeys(op.engines)
        IN  before.ok =>
            /\ after.ok
            /\ na <= 1
            /\ nb = 1 =>
                  /\ na = 1
                  /\ HeaderIndex(content, ENGINES) = HeaderIndex(op.before, ENGINES)
                  /\ KeysOf(a) = KeysOf(b) \o
                        SelectSeq(upd, LAMBDA k : \A i \in 1..Len(b) : b[i].k # k)
            /\ na = 1 =>
                  \A j \in 1..Len(upd) :
                      /\ Cardinality({i \in 1..Len(a) : a[i].k = upd[j]}) = 1
                      /\ \E i \in 1..Len(a) :
                            a[i] = [k |-> upd[j], v |-> Str(UpdateValue(op.engines, upd[j]))]

\* C13 witness: the block held "node" with an older value and no new key; the
\* update named "node" and "npm", and the block now holds "node" once, with
\* the new value.
C13_Witness ==
    /\ op.kind = "engines" /\ Doc(op.before).ok
    /\ UpdateKeys(op.engines) = <<NODE, NPM>>
    /\ KeysOf(EngineMembers(op.before)) = <<NPM, NODE>>
    /\ EngineMembers(op.before)[2].v # Str(NODE18)
    /\ EngineMembers(content) =
          << [k |-> NPM, v |-> Str(NPM9)], [k |-> NODE, v |-> Str(NODE18)] >>


\* The index at which the text first holds `sub`, 0 if it does not.
IndexOf(text, sub) ==
    Min({i \in 1..(Len(text) - Len(sub) + 1) : SubSeq(text, i, i + Len(sub) - 1) = sub}
            \cup {Len(text) + 1}) % (Len(text) + 1)

\* The first closing brace after index i.
BraceAfter(text, i) == Min({j \in i..Len(text) : text[j] = "}"})

\* The members of the block whose key is not one of `keys`.
OtherMembers(members, keys) ==
    SelectSeq(members, LAMBDA x : \A i \in 1..Len(keys) : keys[i] # x.k)

\* C14: updateEngines on a valid document that has an engines block leaves
\* the members of the block whose key is not a key of the update as they
\* were, values and order, and leaves the text before the block and the text
\* after its closing brace as they were.
C14_OtherKeysAndTextKept ==
    (op.kind = "engines" /\ op.flag) =>
        LET before == Doc(op.before)
            upd == UpdateKeys(op.engines)
            s == IndexOf(op.before, Quoted(ENGINES))
            e == BraceAfter(op.before, s)
            tail == Len(op.before) - e
        IN  (before.ok /\ Len(BlocksOf(before)) = 1) =>
            /\ OtherMembers(EngineMembers(content), upd) =
                  OtherMembers(MembersOf(BlocksOf(before)), upd)
            /\ Len(content) >= s - 1 + tail
            /\ SubSeq(content, 1, s - 1) = SubSeq(op.before, 1, s - 1)
            /\ From(content, Len(content) - tail + 1) = From(op.before, e + 1)
            /\ BraceAfter(content, s) = Len(content) - tail

\* C14 witness: the block held "npm" and "node"; the update named "node"
\* alone and gave it a new value, and "npm" is still the first member.
C14_Witness ==
    /\ op.kind = "engines" /\ Doc(op.before).ok
    /\ UpdateKeys(op.engines) = <<NODE>>
    /\ KeysOf(EngineMembers(op.before)) = <<NPM, NODE>>
    /\ content # op.before
    /\ EngineMembers(content)[1] = [k |-> NPM, v |-> Str(NPM9)]


\* The field after which a new engines block belongs: "version" if the text
\* has one, else "name".
AnchorKey(text) == IF Includes(text, Quoted(VERSION)) THEN VERSION ELSE NAME

\* The index of the last character of the field `key`: the fourth quote from
\* the start of its key.
FieldEnd(text, key) ==
    LET k == IndexOf(text, Quoted(key))
        quotes == {i \in k..Len(text) : text[i] = Q}
    IN  CHOOSE i \in quotes : Cardinality({j \in quotes : j <= i}) = 4

\* The index of the comma that follows the field, 0 if none does.
CommaAfter(text, f) ==
    LET c == Min({i \in (f + 1)..Len(text) : ~IsSpace(text[i])})
    IN  IF text[c] = "," THEN c ELSE 0

\* The keys of the members of a parsed document, in order.
MemberKeys(text) == KeysOf(Doc(text).val.m)

\* The sequence with x put after its first element equal to `after`.
InsertedAfter(seq, after, x) ==
    LET i == CHOOSE j \in 1..Len(seq) : seq[j] = after /\ \A h \in 1..(j - 1) : seq[h] # after
    IN  SubSeq(seq, 1, i) \o <<x>> \o SubSeq(seq, i + 1, Len(seq))

\* C15: updateEngines with at least one non-empty key, on a valid document
\* that has no engines block and has a "version" field (or, without one, a
\* "name" field), returns the input with one contiguous insertion and nothing
\* deleted.  The insertion is placed after the comma of the field when it has
\* one, and otherwise directly after the field and begins with a comma.  The
\* document then has an engines member right after that field, whose members
\* are exactly the non-empty keys of the update with their values.
C15_NewBlockAfterVersion ==
    (/\ op.kind = "engines" /\ Len(UpdateKeys(op.engines)) > 0
     /\ ~Includes(op.before, Quoted(ENGINES))
     /\ Includes(op.before, Quoted(AnchorKey(op.before)))
     /\ Doc(op.before).ok) =>
        LET key == AnchorKey(op.before)
            after == Doc(content)
            f == FieldEnd(op.before, key)
            c == CommaAfter(op.before, f)
            at == IF c # 0 THEN c ELSE f
            n == Len(content) - Len(op.before)
            upd == UpdateKeys(op.engines)
        IN  /\ n > 0
            /\ SubSeq(content, 1, at) = SubSeq(op.before, 1, at)
            /\ From(content, at + n + 1) = From(op.before, at + 1)
            /\ IF c # 0 THEN content[at + n] = "," ELSE content[at + 1] = ","
            /\ after.ok
            /\ KeysOf(after.val.m) = InsertedAfter(MemberKeys(op.before), key, ENGINES)
            /\ MembersOf(BlocksOf(after)) =
                  [i \in 1..Len(upd) |->
                      [k |-> upd[i], v |-> Str(UpdateValue(op.engines, upd[i]))]]

\* C15 witness: "version" was the last member, with no comma after it, "name"
\* was absent, and the block was added after it with two keys.
C15_Witness ==
    /\ op.kind = "engines" /\ Doc(op.before).ok
    /\ UpdateKeys(op.engines) = <<NODE, NPM>>
    /\ ~Includes(op.before, Quoted(ENGINES))
    /\ Includes(op.before, Quoted(VERSION))
    /\ CommaAfter(op.before, FieldEnd(op.before, VERSION)) = 0
    /\ MemberKeys(content) = <<DEPENDENCIES, VERSION, ENGINES>>
    /\ KeysOf(EngineMembers(content)) = <<NODE, NPM>>


---------------------------------------------------------------------------
(* The classification and the format of a version as the specification     *)
(* words them.                                                             *)

\* The version starts with a digit, a range-operator character, an asterisk
\* or "latest".
StartsAsVersion(lower) ==
    \/ Len(lower) > 0 /\ lower[1] \in DIGITS \cup {"^", "~", ">", "=", "<", "*"}
    \/ StartsWith(lower, LATEST)

StatedUnknown(v) ==
    \/ Len(v) = 0
    \/ Includes(ToLowerCase(v), UNKNOWN)
    \/ Includes(ToLowerCase(v), NOT_AVAILABLE)
    \/ ToLowerCase(v) = PENDING
    \/ ToLowerCase(v) = MANUALREVIEWREQUIRED
    \/ ~StartsAsVersion(ToLowerCase(v))

StatedRemoval(v) == ToLowerCase(v) \in {REMOVE_LOWER, REMOVE_OR_REPLACE}

StatedValid(v) == ~StatedRemoval(v) /\ ~StatedUnknown(v)

StatedFormat(v) ==
    IF \/ Len(v) = 0
       \/ Len(v) > 0 /\ v[1] \in {"^", "~", ">", "=", "<"}
       \/ Includes(v, <<SP>>)
       \/ Includes(v, <<"|", "|">>)
    THEN v
    ELSE <<"^">> \o v

\* The changes of one section: the entries of the solution, in its order,
\* that are valid, declared in the section and different from the declared
\* version.
StatedChanges(doc, section, entries, type) ==
    LET sec == Member(doc, section)
        keep == SelectSeq(entries,
                    LAMBDA e : /\ StatedValid(e.version)
                               /\ HasKey(sec, e.package)
                               /\ StringOf(Get(sec, e.package)) # e.version)
    IN  [i \in 1..Len(keep) |->
            [package |-> keep[i].package, from |-> StringOf(Get(sec, keep[i].package)),
             to |-> StatedFormat(keep[i].version), type |-> type]]

\* C16: the list getChanges returned for the parsed package.json and the
\* solution is the changes of the runtime section followed by those of the
\* development section: for each entry of the solution, in its order, that is
\* classified valid, whose package the section declares and whose declared
\* version differs from the proposed one, a change from the declared version
\* to the formatted proposed version.
C16_ChangesAreTheValidDifferences ==
    pc # "plan" =>
        changes = StatedChanges(Doc(orig).val, DEPENDENCIES, solution.dependencies, "dependency")
                  \o StatedChanges(Doc(orig).val, DEVDEPENDENCIES, solution.devDependencies,
                                   "devDependency")


\* C17: isUnknownVersion answers true exactly for a version that is absent,
\* that contains "unknown" or "not available" or is "pending" or the
\* manual-review marker, whatever the case of its letters, or that does not
\* start with a digit, one of ^ ~ > = <, an asterisk or "latest".
C17_UnknownAsStated ==
    Len(log) = 2 => ((log[1] = "unknown") <=> StatedUnknown(op.from))

\* C18: the two tests never both answer true, and isRemoveVersion answers
\* true exactly for a version that is "remove" or "remove or replace",
\* whatever the case of its letters.
C18_OneClassPerVersion ==
    Len(log) = 2 =>
        /\ (log[2] = "remove") <=> StatedRemoval(op.from)
        /\ ~(log[1] = "unknown" /\ log[2] = "remove")

\* C19: formatVersion returns the version as it is when it is empty, starts
\* with one of ^ ~ > = <, contains a space or contains "||", and the version
\* after "^" otherwise.
C19_FormatAsStated ==
    pc = "formatted" => op.to = StatedFormat(op.from)


\* The text the scenario is to leave: lodash alone, at the new version.
ScenarioResult ==
    JoinLines(<< <<"{">>,
                 <<SP, SP>> \o Quoted(NAME) \o <<":", SP>> \o Quoted(<<"x">>) \o <<",">>,
                 <<SP, SP>> \o Quoted(DEPENDENCIES) \o <<":", SP, "{">>,
                 INDENT \o Quoted(LODASH) \o <<":", SP>> \o Quoted(<<"^">> \o LODASH_PROPOSED),
                 <<SP, SP, "}">>,
                 <<"}">> >>)

\* C20: for the package.json that declares lodash "^4.17.0" then axios
\* "^0.21.0" and the solution that proposes lodash "4.17.21" and axios
\* "REMOVE" with a removal of axios, getChanges returns the one change of
\* lodash from "^4.17.0" to "^4.17.21"; when the invocation is done,
\* package.json declares lodash alone at "^4.17.21", parses, one change and
\* one removal are counted, and package.json.bak holds the original text.
C20_UpgradeAndRemove ==
    (orig = ScenarioText /\ solution = ScenarioSolution) =>
        /\ changes = << [package |-> LODASH, from |-> LODASH_DECLARED,
                         to |-> <<"^">> \o LODASH_PROPOSED, type |-> "dependency"] >>
        /\ pc = "done" =>
              /\ pkgFile = ScenarioResult
              /\ Doc(pkgFile).ok
              /\ Member(Doc(pkgFile).val, DEPENDENCIES) =
                    [t |-> "obj", m |-> <<[k |-> LODASH, v |-> Str(<<"^">> \o LODASH_PROPOSED)]>>]
              /\ applied = 1 /\ removed = 1
              /\ bakExists /\ bakFile = ScenarioText

\* C20 witness: the scenario has run to the end.
C20_Witness ==
    /\ orig = ScenarioText /\ solution = ScenarioSolution /\ pc = "done"
    /\ pkgFile # orig /\ removed = 1


\* The keys of the object sanitize returns, in its order.
ListedKeys ==
    <<NAME, VERSION, PRIVATE, DEPENDENCIES, DEVDEPENDENCIES, PEERDEPENDENCIES,
      RESOLUTIONS, OVERRIDES, ENGINES>>

\* The members of a document whose key is listed.
ListedMembers(doc) ==
    SelectSeq(doc.m, LAMBDA x : \E i \in 1..Len(ListedKeys) : ListedKeys[i] = x.k)

\* C21: the object sanitize returns has the keys name, version, private,
\* dependencies, devDependencies, peerDependencies, resolutions, overrides and
\* engines and no other; none of its values is the value of a field that is
\* not listed; and every document that has the same listed fields gives the
\* same object.
C21_OnlyListedFieldsSent ==
    pc = "sanitized" =>
        /\ KeysOf(cli.sanitized.m) = ListedKeys
        /\ \A i \in 1..Len(cli.parsed.m) :
              (\A j \in 1..Len(ListedKeys) : ListedKeys[j] # cli.parsed.m[i].k) =>
                  \A j \in 1..Len(cli.sanitized.m) :
                      cli.sanitized.m[j].v # cli.parsed.m[i].v
        /\ \A d \in Pkgs :
              ListedMembers(d) = ListedMembers(cli.parsed) => sanitize(d) = cli.sanitized

\* C21 witness: the document had scripts, an author and a token besides its
\* dependencies, and the object returned has the listed keys alone.
C21_Witness ==
    /\ pc = "sanitized"
    /\ Len(cli.parsed.m) - Len(ListedMembers(cli.parsed)) = 3
    /\ HasKey(cli.parsed, DEPENDENCIES)
    /\ Len(cli.sanitized.m) = 9


\* The analysis of a --ci run succeeded: every call before it returned and
\* the response holds the data of an analysis.
CiSucceeded ==
    /\ cli.deviceId = "ok" /\ cli.read = "ok" /\ cli.auth = "header"
    /\ cli.response \in {"attention", "issues", "clean"}

\* C22: a process run with --ci that has exited has the code 1 exactly when
\* the analysis succeeded and requires attention, 0 exactly when it succeeded
\* and does not, and 2 in every other case, with --json and without.
C22_CiExitCodes ==
    (pc = "exited" /\ cli.ci) =>
        /\ cli.exitCode = 1 <=> (CiSucceeded /\ cli.response = "attention")
        /\ cli.exitCode = 0 <=> (CiSucceeded /\ cli.response # "attention")
        /\ cli.exitCode = 2 <=> ~CiSucceeded


\* C23: when DEPFIXER_DISABLE_ANALYTICS is "true" at the start of the
\* process, no request is issued for any event, whatever methods are called
\* and in whatever order.
C23_DisabledSendsNothing ==
    cli.DEPFIXER_DISABLE_ANALYTICS = "true" => cli.sent = <<>>

\* The variable is "true", nothing else disables analytics, and track and
\* trackSync have both been called.
C23_Witness ==
    /\ cli.DEPFIXER_DISABLE_ANALYTICS = "true"
    /\ cli.NODE_ENV = "production"
    /\ cli.token = "token"
    /\ \E i, j \in 1..Len(cli.calls) :
          /\ cli.calls[i] \in TrackedEvents
          /\ cli.calls[j] \in SyncEvents
          /\ i < j
    /\ \E i, j \in 1..Len(cli.calls) :
          /\ cli.calls[i] \in SyncEvents
          /\ cli.calls[j] \in TrackedEvents
          /\ i < j


\* The text after one change, one removal, the engine update, each computed
\* from the text it is given.
AfterChange(t, ch) ==
    LET r == replaceVersionInSection(t, SectionOf(ch.type), ch.package, ch.from, ch.to)
    IN  IF r.replaced THEN r.content ELSE t

AfterRemoval(t, rm) ==
    LET r == removePackageFromSection(t, SectionOf(rm.type), rm.package)
    IN  IF r.removed THEN r.content ELSE t

AfterEngines(t, eng) == IF Len(eng) > 0 THEN updateEngines(t, eng).content ELSE t

RECURSIVE AfterChanges(_, _, _)
AfterChanges(t, chs, i) ==
    IF i > Len(chs) THEN t ELSE AfterChanges(AfterChange(t, chs[i]), chs, i + 1)

RECURSIVE AfterRemovals(_, _, _)
AfterRemovals(t, rms, i) ==
    IF i > Len(rms) THEN t ELSE AfterRemovals(AfterRemoval(t, rms[i]), rms, i + 1)

\* The three phases in the stated order, from the text that was read.
AfterAll(t) ==
    AfterEngines(AfterRemovals(AfterChanges(t, changes, 1), solution.removals, 1),
                 solution.engines)

\* C24: applySurgicalFixes processes every change in the order of the list,
\* then every removal in the order of the list, then the engine update, each
\* step on the text the previous step produced; package.json is written only
\* after the three phases, with the text they produced.
C24_PhasesInOrder ==
    [][ /\ nChanges' # nChanges =>
             /\ nChanges' = nChanges + 1
             /\ nRemovals = 0 /\ pc = "changes"
             /\ op'.package = changes[nChanges'].package
             /\ op'.to = changes[nChanges'].to
             /\ content' = AfterChange(content, changes[nChanges'])
        /\ nRemovals' # nRemovals =>
             /\ nRemovals' = nRemovals + 1
             /\ nChanges = Len(changes) /\ pc = "removals"
             /\ op'.package = solution.removals[nRemovals'].package
             /\ content' = AfterRemoval(content, solution.removals[nRemovals'])
        /\ (pc = "engines" /\ pc' # pc) =>
             /\ nChanges = Len(changes) /\ nRemovals = Len(solution.removals)
             /\ pc' = "write"
             /\ content' = AfterEngines(content, solution.engines)
        /\ pkgFile' # pkgFile =>
             /\ pc \in {"write", "write_writing"}
             /\ nChanges = Len(changes) /\ nRemovals = Len(solution.removals)
        /\ (pc = "write_writing" /\ pc' = "done") => pkgFile' = AfterAll(orig)
      ]_vars

\* A run with two changes, a removal and an engine update has written a
\* package.json that differs from the one it read.
C24_Witness ==
    /\ pc = "done"
    /\ Len(changes) = 2 /\ applied = 2
    /\ Len(solution.removals) = 1 /\ Len(solution.engines) = 1
    /\ pkgFile # orig


\* The index of the brace that closes the brace at index i of text, found by
\* counting the depth from there; 0 when there is none.
RECURSIVE MatchingBrace(_, _, _)
MatchingBrace(text, i, depth) ==
    IF i > Len(text) THEN 0
    ELSE IF text[i] = "{" THEN MatchingBrace(text, i + 1, depth + 1)
    ELSE IF text[i] = "}" THEN (IF depth = 1 THEN i ELSE MatchingBrace(text, i + 1, depth - 1))
    ELSE MatchingBrace(text, i + 1, depth)

SectionHeader(section) == Quoted(section) \o <<":", SP, "{">>

\* The indices, within first..last of text, at which sub occurs whole.
OccurrencesIn(text, sub, first, last) ==
    { i \in first..(last - Len(sub) + 1) : SubSeq(text, i, i + Len(sub) - 1) = sub }

\* The least member of a non-empty set of indices.
Least(S) == CHOOSE i \in S : \A j \in S : i <= j

\* C25: replaceVersionInSection searches from the first occurrence of the
\* section header to the closing brace that matches the opening brace of the
\* header: it replaces exactly when the entry occurs in that region, and then
\* its first occurrence there, an entry after a nested object value included
\* and an entry after the matching brace excluded; when the opening brace is
\* never closed the text is left as it is.
C25_SearchRegion ==
    op.kind = "change" =>
        LET text == op.before
            header == SectionHeader(SectionOf(op.type))
            start == IndexOf(text, header)
            open == start + Len(header) - 1
            close == IF start = 0 THEN 0 ELSE MatchingBrace(text, open + 1, 1)
            prefix == Quoted(op.package) \o <<":", SP, Q>>
            hits == IF close = 0 THEN {}
                    ELSE OccurrencesIn(text, prefix \o op.from \o <<Q>>, start, close)
        IN  /\ op.flag <=> hits # {}
            /\ ~op.flag => content = op.before
            /\ op.flag => content = SubSeq(text, 1, Least(hits) + Len(prefix) - 1) \o op.to
                                      \o From(text, Least(hits) + Len(prefix) + Len(op.from))

\* "b" was replaced in a section where it follows a nested object value, and
\* the entry "b" after the closing brace of the section is as it was.
C25_Witness ==
    /\ op.kind = "change" /\ op.flag /\ op.package = PKG_B
    /\ \E i, j, k \in 1..Len(content) :
          /\ i < j /\ j < k
          /\ content[i] = "}" /\ content[j] = "^" /\ content[k] = "}"
          /\ SubSeq(content, k, Len(content)) =
                 <<"}", ",", NL, SP, SP>> \o Quoted(PKG_B) \o <<":", SP>> \o Quoted(V10)
                     \o <<NL, "}">>


\* The index of the first line that holds `sub`, 0 if none does.
LineWith(lines, sub) ==
    IF \E i \in 1..Len(lines) : IndexOf(lines[i], sub) # 0
    THEN Least({i \in 1..Len(lines) : IndexOf(lines[i], sub) # 0})
    ELSE 0

\* The number of blanks a line starts with.
Indentation(line) == SkipSpace(line, 1) - 1

\* The line of the brace that closes the block whose header is on line h.
ClosingLine(lines, h) ==
    Least({i \in (h + 1)..Len(lines) : CharAt(lines[i], SkipSpace(lines[i], 1), "}")})

\* The lines of the entries of the engines block of a text whose header is on
\* a line of its own; none when the block is written {} on the header line.
EntryLinesOf(lines) ==
    LET h == LineWith(lines, Quoted(ENGINES))
    IN  IF h = 0 \/ IndexOf(lines[h], <<"{", "}">>) # 0 THEN {}
        ELSE { i \in (h + 1)..(ClosingLine(lines, h) - 1) : lines[i] # <<>> }

\* C26: a key of the update that the existing engines block lacks is written
\* on a line before the closing brace of the block and after the entries the
\* block had; the line before it ends with a comma exactly when the block had
\* entries; and the new line is indented as the entries the block had.
C26_InsertedEntryLayout ==
    (op.kind = "engines" /\ LineWith(SplitLines(op.before), Quoted(ENGINES)) # 0) =>
        LET before == SplitLines(op.before)
            after == SplitLines(content)
            had == EntryLinesOf(before)
            h == LineWith(after, Quoted(ENGINES))
        IN  \A e \in 1..Len(op.engines) :
              LET key == Quoted(op.engines[e].key) \o <<":">>
                  new == LineWith(after, key)
              IN  (op.engines[e].value # <<>> /\ LineWith(before, key) = 0) =>
                      /\ new # 0
                      /\ new > h /\ new < ClosingLine(after, h)
                      /\ \A i \in had : LineWith(after, before[i]) < new
                      /\ had # {} => after[new - 1][Len(after[new - 1])] = ","
                      /\ (had = {} /\ new = h + 1) =>
                             after[h][Len(after[h])] = "{"
                      /\ \A i \in had : Indentation(after[new]) = Indentation(before[i])


\* C27: in the default command and in the fix command, when deductCredits
\* has succeeded the session status is PAID when the command ends, also when
\* applying the fixes failed.
C27_PaidOnceDeducted ==
    (pc = "ended" /\ cli.deducted) => cli.status = "PAID"


\* C28: in the fix command the text that applySurgicalFixes reads has the
\* hash stored in the session unless the user answered yes to "Apply
\* anyway?", also when package.json is written by another process between
\* the check of the hash and that read.
C28_PatchedTextIsVerified ==
    pc = "patching" =>
        \/ calculateHash(content) = cli.originalFileHash
        \/ cli.asked /\ cli.applyAnyway


\* C29: after any sequence of invocations of applySurgicalFixes that have
\* returned, package.json.bak holds the text package.json had when the most
\* recent invocation started, whatever backup the invocations before it left.
C29_BackupIsLastStart ==
    pc = "done" => (bakExists /\ bakFile = orig)

\* The second invocation has returned; it started from a text the first had
\* changed, changed it again, and the backup of the first is gone.
C29_Witness ==
    /\ pc = "done" /\ cli.runs = 2
    /\ cli.previous # orig
    /\ pkgFile # orig
    /\ bakFile = orig


\* C30: formatVersion is idempotent: applied to its own result it returns
\* that result, for every version.
C30_FormatIdempotent ==
    pc = "reformatted" => cli.twice = cli.once

\* A bare version got its caret from the first application and no second
\* caret from the second.
C30_Witness ==
    /\ pc = "reformatted"
    /\ cli.version = V10
    /\ cli.once = VC10
    /\ cli.twice = VC10

====
